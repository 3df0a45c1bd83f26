---------------------------- MODULE HostSideProofs ----------------------------
(*****************************************************************************)
(* What is proved of the back ends, the captures, the print jobs and the     *)
(* printing itself of HostSide, for every value of their constants.          *)
(*****************************************************************************)
EXTENDS HostSide, SequenceTheorems, WellFoundedInduction, TLAPS

(*****************************************************************************)
(* The raw and rlogin back ends.                                             *)
(*****************************************************************************)
Bytes == {"NUL", "a"}
Items == Widths \union {"NUL", "localusername", "username", "termtype/termspeed", "typed"}

BackendTypes ==
    /\ backend \in [proto : {"raw", "rlogin"}, s : BOOLEAN, firstbyte : BOOLEAN,
                    cansize : BOOLEAN, term_width : Widths \union {0}]
    /\ width \in Widths
    /\ inband \in Seq(Bytes) /\ sent \in Seq(Bytes) /\ shown \in Seq(Bytes)
    /\ written \in Seq(Items)

(* What was shown and what is to come are what was sent, or, for rlogin once the
   first byte has come, what is left of it. *)
Stripped(s) == IF s[1] = "NUL" THEN Tail(s) ELSE s
SentIsShown ==
    /\ backend.proto = "raw" => ~backend.firstbyte /\ shown \o inband = sent
    /\ backend.firstbyte => shown = <<>> /\ inband = sent
    /\ backend.proto = "rlogin" /\ ~backend.firstbyte =>
          sent # <<>> /\ shown \o inband = Stripped(sent)

(* A size is written once the host has asked and its request has come, and then
   at each change. *)
Told(s) == {i \in DOMAIN s : s[i] \in Widths}
LastTold(s, w) == \E i \in Told(s) : s[i] = w /\ \A j \in Told(s) : j <= i
SizeIsTold ==
    /\ backend.cansize \/ urgent = "0x80" => asked
    /\ backend.cansize \/ urgent # "none" => backend.proto = "rlogin"
    /\ backend.proto = "rlogin" => backend.term_width = width
    /\ ~backend.cansize => Told(written) = {}
    /\ backend.cansize /\ backend.s => LastTold(written, width)

BackendInv == BackendTypes /\ SentIsShown /\ SizeIsTold

-----------------------------------------------------------------------------
(* Sequences. *)

(* A sequence is what it begins with and the rest. *)
LEMMA CutSeq ==
    ASSUME NEW S, NEW s \in Seq(S), NEW n \in 0 .. Len(s)
    PROVE  /\ SubSeq(s, 1, n) \in Seq(S) /\ Len(SubSeq(s, 1, n)) = n
           /\ SubSeq(s, n + 1, Len(s)) \in Seq(S)
           /\ Len(SubSeq(s, n + 1, Len(s))) = Len(s) - n
           /\ SubSeq(s, 1, n) \o SubSeq(s, n + 1, Len(s)) = s
<1>1. Len(s) \in Nat /\ \A i \in 1 .. Len(s) : s[i] \in S
  BY LenProperties
<1>2. SubSeq(s, 1, n) \in Seq(S) /\ Len(SubSeq(s, 1, n)) = n
  BY <1>1, SubSeqProperties
<1>3. SubSeq(s, n + 1, Len(s)) \in Seq(S) /\ Len(SubSeq(s, n + 1, Len(s))) = Len(s) - n
  <2>1. PICK m \in Nat : m = Len(s)
    BY <1>1
  <2>2. n + 1 \in Int /\ \A i \in n + 1 .. m : s[i] \in S
    BY <1>1, <2>1
  <2>3. SubSeq(s, n + 1, m) \in Seq(S)
        /\ Len(SubSeq(s, n + 1, m)) = IF n + 1 <= m THEN m - (n + 1) + 1 ELSE 0
    BY <2>2, SubSeqProperties
  <2> QED BY <2>1, <2>3
<1>4. SubSeq(s, 1, n) \o SubSeq(s, n + 1, Len(s)) = SubSeq(s, 1, Len(s))
  <2>1. 1 \in 1 .. Len(s) + 1 /\ n \in 1 - 1 .. Len(s) /\ Len(s) \in n .. Len(s)
    BY <1>1
  <2> QED BY <2>1, ConcatAdjacentSubSeq
<1> QED BY <1>2, <1>3, <1>4, SubSeqFull

(* Taking from one queue to another keeps what they hold. *)
LEMMA MoveSeq ==
    ASSUME NEW S, NEW s \in Seq(S), NEW t \in Seq(S), NEW n \in 0 .. Len(t)
    PROVE  (s \o SubSeq(t, 1, n)) \o SubSeq(t, n + 1, Len(t)) = s \o t
<1>1. PICK a \in Seq(S) : a = SubSeq(t, 1, n)
  BY CutSeq
<1>2. PICK b \in Seq(S) : b = SubSeq(t, n + 1, Len(t))
  BY CutSeq
<1>3. a \o b = t
  BY <1>1, <1>2, CutSeq
<1>4. (s \o a) \o b = s \o (a \o b)
  BY ConcatAssociative, SMTT(60)
<1> QED BY <1>1, <1>2, <1>3, <1>4

(* An item more. *)
LEMMA MoreSeq ==
    ASSUME NEW S, NEW s \in Seq(S), NEW t \in Seq(S), NEW e \in S
    PROVE  /\ s \o Append(t, e) = Append(s \o t, e)
           /\ Append(s \o t, e) \in Seq(S)
<1>1. <<e>> \in Seq(S) /\ s \o t \in Seq(S)
  BY ConcatProperties
<1>2. Append(t, e) = t \o <<e>> /\ Append(s \o t, e) = (s \o t) \o <<e>>
  BY <1>1, AppendIsConcat
<1>3. (s \o t) \o <<e>> = s \o (t \o <<e>>)
  BY <1>1, ConcatAssociative
<1> QED BY <1>1, <1>2, <1>3, AppendProperties

(* A set of numbers has a least one. *)
LEMMA LeastOf ==
    ASSUME NEW T, T \subseteq Nat, T # {}
    PROVE  \E m \in T : \A k \in T : m <= k
<1> DEFINE R == OpToRel(<, Nat)
<1>1. IsWellFoundedOn(R, Nat)
  BY NatLessThanWellFounded
<1>2. \A a, b \in Nat : a < b => <<a, b>> \in R
  BY DEF OpToRel
<1> HIDE DEF R
<1>3. PICK m \in T : \A k \in T : ~ (<<k, m>> \in R)
  BY <1>1, WFMin
<1>4. ASSUME NEW k \in T PROVE m <= k
  <2>1. m \in Nat /\ k \in Nat /\ ~(k < m)
    BY <1>2, <1>3
  <2> QED BY <2>1
<1> QED BY <1>4

-----------------------------------------------------------------------------
(* The initial state. *)
LEMMA BackendInit ==
    ASSUME B!Init
    PROVE  BackendInv
<1>1. /\ inband = <<>> /\ urgent = "none" /\ shown = <<>> /\ sent = <<>> /\ asked = FALSE
      /\ width \in Widths
  BY DEF B!Init
<1>2. PICK p \in Protocols :
        /\ backend = IF p = "raw" THEN B!raw_init ELSE B!rlogin_init(width)
        /\ written = IF p = "raw" THEN <<>> ELSE B!Login
  BY DEF B!Init
<1>3. p \in {"raw", "rlogin"}
  BY InstancesAssumption DEF B!BackendsAssumption
<1>4. /\ backend.proto = p /\ backend.s = TRUE /\ ~backend.cansize
      /\ backend.firstbyte = (p = "rlogin")
      /\ p = "rlogin" => backend.term_width = width
      /\ backend \in [proto : {"raw", "rlogin"}, s : BOOLEAN, firstbyte : BOOLEAN,
                      cansize : BOOLEAN, term_width : Widths \union {0}]
  BY <1>1, <1>2, <1>3 DEF B!raw_init, B!rlogin_init
<1>5. written \in Seq(Items) /\ Told(written) = {}
  <2>1. B!Login \in Seq(Items) /\ Told(B!Login) = {}
    BY InstancesAssumption DEF B!BackendsAssumption, B!Login, B!NUL, Items, Told
  <2>2. Told(<<>>) = {}
    BY DEF Told
  <2> QED BY <1>2, <2>1, <2>2
<1>6. BackendTypes
  BY <1>1, <1>4, <1>5 DEF BackendTypes
<1>7. SentIsShown
  BY <1>1, <1>3, <1>4 DEF SentIsShown
<1>8. SizeIsTold
  BY <1>1, <1>4, <1>5 DEF SizeIsTold
<1> QED BY <1>6, <1>7, <1>8 DEF BackendInv

(* Sizes written after what was written before. *)
LEMMA WrittenMore ==
    ASSUME NEW s \in Seq(Items), NEW e \in Items, NEW r, r = s \o <<e>>
    PROVE  /\ r \in Seq(Items)
           /\ e \in Widths => LastTold(r, e)
           /\ e \notin Widths => Told(r) = Told(s)
           /\ \A w : e \notin Widths /\ LastTold(s, w) => LastTold(r, w)
<1>1. /\ <<e>> \in Seq(Items) /\ Len(<<e>>) = 1 /\ <<e>>[1] = e
  OBVIOUS
<1>2. PICK n \in Nat : n = Len(s) /\ DOMAIN s = 1 .. n
  BY LenProperties
<1>3. /\ r \in Seq(Items) /\ Len(r) = n + 1
      /\ \A i \in 1 .. n + 1 : r[i] = IF i <= n THEN s[i] ELSE <<e>>[i - n]
  BY <1>1, <1>2, ConcatProperties
<1>4. /\ DOMAIN r = 1 .. n + 1 /\ r[n + 1] = e
      /\ \A i \in 1 .. n : r[i] = s[i]
  BY <1>1, <1>3, LenProperties
<1>5. e \in Widths => LastTold(r, e)
  BY <1>4 DEF LastTold, Told
<1>6. e \notin Widths => Told(r) = Told(s)
  BY <1>2, <1>4 DEF Told
<1>7. ASSUME NEW w, e \notin Widths, LastTold(s, w) PROVE LastTold(r, w)
  BY <1>2, <1>4, <1>6, <1>7 DEF LastTold, Told
<1> QED BY <1>3, <1>5, <1>6, <1>7

-----------------------------------------------------------------------------
(* The steps. *)

(* The host sends a byte: it is the last of what was sent and of what is to come. *)
LEMMA HostSendsKeeps ==
    ASSUME BackendInv, B!HostSends
    PROVE  BackendInv'
<1>1. PICK c \in {B!NUL, "a"} : inband' = Append(inband, c) /\ sent' = Append(sent, c)
  BY DEF B!HostSends
<1>2. UNCHANGED <<backend, width, urgent, written, shown, asked>>
  BY DEF B!HostSends
<1>3. c \in Bytes
  BY DEF B!NUL, Bytes
<1>4. inband \in Seq(Bytes) /\ sent \in Seq(Bytes) /\ shown \in Seq(Bytes)
  BY DEF BackendInv, BackendTypes
<1>5. shown \o inband' = Append(shown \o inband, c)
  BY <1>1, <1>3, <1>4, MoreSeq
<1>6. BackendTypes'
  BY <1>1, <1>2, <1>3, <1>4 DEF BackendInv, BackendTypes
<1>7. sent # <<>> => Append(Stripped(sent), c) = Stripped(Append(sent, c))
  <2> SUFFICES ASSUME sent # <<>>
               PROVE  Append(Stripped(sent), c) = Stripped(Append(sent, c))
    OBVIOUS
  <2>1. Len(sent) \in Nat \ {0}
    BY <1>4, EmptySeq, LenProperties
  <2>2. Append(sent, c)[1] = sent[1]
    BY <1>3, <1>4, <2>1, AppendProperties
  <2>3. Tail(Append(sent, c)) = Append(Tail(sent), c)
    BY <1>3, <1>4, <2>1, SMTT(20)
  <2> QED BY <2>2, <2>3 DEF Stripped
<1>8. sent' # <<>>
  BY <1>1, <1>3, <1>4, AppendProperties
<1>9. SentIsShown'
  BY <1>1, <1>2, <1>5, <1>7, <1>8 DEF BackendInv, SentIsShown
<1>10. SizeIsTold'
  BY <1>2 DEF BackendInv, SizeIsTold
<1> QED BY <1>6, <1>9, <1>10 DEF BackendInv

(* The urgent byte is written with what it asks. *)
LEMMA HostUrgesKeeps ==
    ASSUME BackendInv, B!HostUrges
    PROVE  BackendInv'
<1>1. PICK c \in {"0x80", "0x02"} : urgent' = c /\ asked' = (asked \/ c = "0x80")
  BY DEF B!HostUrges
<1>2. UNCHANGED <<backend, width, inband, written, shown, sent>> /\ backend.proto = "rlogin"
  BY DEF B!HostUrges
<1> QED BY <1>1, <1>2 DEF BackendInv, BackendTypes, SentIsShown, SizeIsTold

(* A raw backend shows whatever part of what is to come the socket brings. *)
LEMMA RawReceiveKeeps ==
    ASSUME BackendInv, B!raw_receive
    PROVE  BackendInv'
<1>1. PICK n \in 1 .. Len(inband) :
        /\ shown' = shown \o SubSeq(inband, 1, n)
        /\ inband' = SubSeq(inband, n + 1, Len(inband))
  BY DEF B!raw_receive
<1>2. UNCHANGED <<backend, width, urgent, written, sent, asked>> /\ backend.proto = "raw"
  BY DEF B!raw_receive
<1>3. inband \in Seq(Bytes) /\ shown \in Seq(Bytes)
  BY DEF BackendInv, BackendTypes
<1>4. n \in 0 .. Len(inband)
  BY <1>3, LenProperties
<1>5. shown' \o inband' = shown \o inband
  BY <1>1, <1>3, <1>4, MoveSeq
<1>6. shown' \in Seq(Bytes) /\ inband' \in Seq(Bytes)
  <2>1. PICK a \in Seq(Bytes) : a = SubSeq(inband, 1, n)
    BY <1>3, <1>4, CutSeq
  <2>2. inband' \in Seq(Bytes)
    BY <1>1, <1>3, <1>4, CutSeq
  <2> QED BY <1>1, <1>3, <2>1, <2>2, ConcatProperties
<1>7. BackendTypes'
  BY <1>2, <1>6 DEF BackendInv, BackendTypes
<1>8. SentIsShown'
  BY <1>2, <1>5 DEF BackendInv, SentIsShown
<1>9. SizeIsTold'
  BY <1>2 DEF BackendInv, SizeIsTold
<1> QED BY <1>7, <1>8, <1>9 DEF BackendInv

(* An rlogin one drops the first byte of all, when it is NUL. *)
LEMMA RloginReceiveKeeps ==
    ASSUME BackendInv, B!rlogin_receive
    PROVE  BackendInv'
<1>1. PICK n \in 1 .. Len(inband) :
        /\ shown' = shown \o B!Printed(backend, SubSeq(inband, 1, n))
        /\ inband' = SubSeq(inband, n + 1, Len(inband))
  BY DEF B!rlogin_receive
<1>2. /\ UNCHANGED <<width, urgent, written, sent, asked>>
      /\ backend' = [backend EXCEPT !.firstbyte = FALSE] /\ backend.proto = "rlogin"
  BY DEF B!rlogin_receive
<1>3. inband \in Seq(Bytes) /\ shown \in Seq(Bytes) /\ sent \in Seq(Bytes)
  BY DEF BackendInv, BackendTypes
<1>4. n \in 0 .. Len(inband) /\ Len(inband) \in Nat /\ n # 0
  BY <1>3, LenProperties
<1>5. PICK a \in Seq(Bytes) : a = SubSeq(inband, 1, n)
  BY <1>3, <1>4, CutSeq
<1>6. PICK b \in Seq(Bytes) : b = SubSeq(inband, n + 1, Len(inband))
  BY <1>3, <1>4, CutSeq
<1>7. a \o b = inband /\ Len(a) = n
  BY <1>3, <1>4, <1>5, <1>6, CutSeq
<1>8. a # <<>> /\ a[1] = inband[1]
  <2>1. a # <<>>
    BY <1>4, <1>7, EmptySeq
  <2>2. (a \o b)[1] = a[1]
    BY <1>4, <1>7
  <2> QED BY <1>7, <2>1, <2>2
<1>9. backend \in [proto : {"raw", "rlogin"}, s : BOOLEAN, firstbyte : BOOLEAN,
                   cansize : BOOLEAN, term_width : Widths \union {0}]
  BY DEF BackendInv, BackendTypes
<1>10. /\ backend' \in [proto : {"raw", "rlogin"}, s : BOOLEAN, firstbyte : BOOLEAN,
                        cansize : BOOLEAN, term_width : Widths \union {0}]
       /\ backend'.proto = "rlogin" /\ ~backend'.firstbyte
       /\ backend'.s = backend.s /\ backend'.cansize = backend.cansize
       /\ backend'.term_width = backend.term_width
  BY <1>2, <1>9
<1>11. CASE backend.firstbyte
  <2>1. shown = <<>> /\ inband = sent
    BY <1>11 DEF BackendInv, SentIsShown
  <2>2. sent # <<>> /\ sent[1] = a[1]
    BY <1>4, <1>8, <2>1, EmptySeq
  <2>3. shown' = Stripped(a) /\ Stripped(a) \in Seq(Bytes)
    <3>1. B!Printed(backend, a) = Stripped(a)
      BY <1>11 DEF B!Printed, B!NUL, Stripped
    <3>2. Stripped(a) \in Seq(Bytes)
      BY <1>8, HeadTailProperties DEF Stripped
    <3> QED BY <1>1, <1>5, <2>1, <3>1, <3>2, ConcatEmptySeq
  <2>4. Stripped(a) \o b = Stripped(a \o b)
    <3>1. (a \o b)[1] = a[1]
      BY <1>7, <1>8
    <3>2. Tail(a) \o b = Tail(a \o b)
      BY <1>5, <1>6, <1>8, ConcatSimplifications
    <3> QED BY <3>1, <3>2 DEF Stripped
  <2>5. SentIsShown'
    BY <1>1, <1>2, <1>6, <1>7, <1>10, <2>1, <2>2, <2>3, <2>4 DEF SentIsShown
  <2>6. BackendTypes'
    BY <1>1, <1>2, <1>6, <1>10, <2>3 DEF BackendInv, BackendTypes
  <2> QED BY <1>2, <1>10, <2>5, <2>6 DEF BackendInv, SizeIsTold
<1>12. CASE ~backend.firstbyte
  <2>1. shown' = shown \o a
    BY <1>1, <1>5, <1>12 DEF B!Printed
  <2>2. shown' \in Seq(Bytes)
    BY <1>3, <2>1, ConcatProperties
  <2>3. shown' \o inband' = shown \o inband
    <3>1. PICK s \in Seq(Bytes) : s = shown
      BY <1>3
    <3>2. (s \o a) \o b = s \o (a \o b)
      BY ConcatAssociative, SMTT(60)
    <3> QED BY <1>1, <1>6, <1>7, <2>1, <3>1, <3>2
  <2>4. SentIsShown'
    BY <1>2, <1>10, <1>12, <2>3 DEF BackendInv, SentIsShown
  <2>5. BackendTypes'
    BY <1>1, <1>2, <1>6, <1>10, <2>2 DEF BackendInv, BackendTypes
  <2> QED BY <1>2, <1>10, <2>4, <2>5 DEF BackendInv, SizeIsTold
<1> QED BY <1>11, <1>12

(* Once the urgent byte 0x80 has come, each size is written. *)
LEMMA RloginSize ==
    ASSUME BackendInv, backend.proto = "rlogin", NEW w \in Widths,
           NEW c \in BOOLEAN, backend.cansize => c,
           NEW b, b = [backend EXCEPT !.cansize = c], B!rlogin_size(b, w)
    PROVE  /\ backend' = [b EXCEPT !.term_width = w]
           /\ written' \in Seq(Items)
           /\ ~c => written' = written
           /\ c /\ backend.s => LastTold(written', w)
<1>1. b.cansize = c /\ b.s = backend.s
  BY DEF BackendInv, BackendTypes
<1>2. backend' = [b EXCEPT !.term_width = w] /\ backend'.term_width = w
  BY DEF BackendInv, BackendTypes, B!rlogin_size, B!Sized
<1>3. written' = IF c THEN B!Written(b, <<w>>) ELSE written
  BY <1>1, <1>2 DEF B!rlogin_size, B!SizeMessage
<1>4. written \in Seq(Items) /\ w \in Items
  BY DEF BackendInv, BackendTypes, Items
<1>5. CASE c /\ backend.s
  <2>1. written' = written \o <<w>>
    BY <1>1, <1>3, <1>5 DEF B!Written
  <2> QED BY <1>2, <1>4, <1>5, <2>1, WrittenMore
<1>6. CASE ~(c /\ backend.s)
  BY <1>1, <1>2, <1>3, <1>4, <1>6 DEF B!Written
<1> QED BY <1>5, <1>6

(* The urgent byte comes: 0x80 is answered with the size, the others are not. *)
LEMMA UrgentKeeps ==
    ASSUME BackendInv, B!rlogin_receive_urgent
    PROVE  BackendInv'
<1>1. UNCHANGED <<width, inband, shown, sent, asked>> /\ urgent' = "none"
  BY DEF B!rlogin_receive_urgent
<1>2. CASE urgent = "0x80"
  <2>1. asked
    BY <1>2 DEF BackendInv, SizeIsTold
  <2>2. backend.proto = "rlogin"
    BY <1>2 DEF BackendInv, SizeIsTold
  <2>3. backend.term_width = width /\ width \in Widths
    BY <2>2 DEF BackendInv, BackendTypes, SizeIsTold
  <2>4. PICK b : b = [backend EXCEPT !.cansize = TRUE]
    OBVIOUS
  <2>5. B!rlogin_size(b, width)
    BY <1>2, <2>3, <2>4 DEF B!rlogin_receive_urgent
  <2>6. /\ backend' = [b EXCEPT !.term_width = width]
        /\ written' \in Seq(Items)
        /\ backend.s => LastTold(written', width)
    BY <2>2, <2>3, <2>4, <2>5, RloginSize
  <2>7. /\ backend' \in [proto : {"raw", "rlogin"}, s : BOOLEAN, firstbyte : BOOLEAN,
                         cansize : BOOLEAN, term_width : Widths \union {0}]
        /\ backend'.proto = "rlogin" /\ backend'.cansize /\ backend'.term_width = width
        /\ backend'.s = backend.s /\ backend'.firstbyte = backend.firstbyte
    BY <2>2, <2>3, <2>4, <2>6 DEF BackendInv, BackendTypes
  <2>8. BackendTypes'
    BY <1>1, <2>6, <2>7 DEF BackendInv, BackendTypes
  <2>9. SentIsShown'
    BY <1>1, <2>2, <2>7 DEF BackendInv, SentIsShown
  <2>10. SizeIsTold'
    BY <1>1, <2>1, <2>6, <2>7 DEF SizeIsTold
  <2> QED BY <2>8, <2>9, <2>10 DEF BackendInv
<1>3. CASE urgent # "0x80"
  <2>1. UNCHANGED <<backend, written>>
    BY <1>3 DEF B!rlogin_receive_urgent
  <2> QED BY <1>1, <2>1 DEF BackendInv, BackendTypes, SentIsShown, SizeIsTold
<1> QED BY <1>2, <1>3

(* The window changes: an rlogin backend takes the new size down, and tells it
   once it was asked. *)
LEMMA ResizeKeeps ==
    ASSUME BackendInv, B!Resize
    PROVE  BackendInv'
<1>1. UNCHANGED <<inband, urgent, shown, sent, asked>>
  BY DEF B!Resize
<1>2. PICK w \in Widths \ {width} :
        /\ width' = w
        /\ IF backend.proto = "raw" THEN B!raw_size ELSE B!rlogin_size(backend, w)
  BY DEF B!Resize
<1>3. backend.proto \in {"raw", "rlogin"}
  BY DEF BackendInv, BackendTypes
<1>4. CASE backend.proto = "raw"
  <2>1. UNCHANGED <<backend, written>>
    BY <1>2, <1>4 DEF B!raw_size
  <2> QED BY <1>1, <1>2, <1>4, <2>1 DEF BackendInv, BackendTypes, SentIsShown, SizeIsTold
<1>5. CASE backend.proto = "rlogin"
  <2>1. PICK c \in BOOLEAN : c = backend.cansize
    BY DEF BackendInv, BackendTypes
  <2>2. PICK b : b = backend
    OBVIOUS
  <2>3. b = [backend EXCEPT !.cansize = c]
    BY <2>1, <2>2 DEF BackendInv, BackendTypes
  <2>4. B!rlogin_size(b, w)
    BY <1>2, <1>5, <2>2
  <2>5. /\ backend' = [b EXCEPT !.term_width = w]
        /\ written' \in Seq(Items)
        /\ ~c => written' = written
        /\ c /\ backend.s => LastTold(written', w)
    BY <1>5, <2>1, <2>3, <2>4, RloginSize
  <2>6. /\ backend' \in [proto : {"raw", "rlogin"}, s : BOOLEAN, firstbyte : BOOLEAN,
                         cansize : BOOLEAN, term_width : Widths \union {0}]
        /\ backend'.proto = "rlogin" /\ backend'.cansize = c /\ backend'.term_width = w
        /\ backend'.s = backend.s /\ backend'.firstbyte = backend.firstbyte
    BY <1>5, <2>1, <2>2, <2>5 DEF BackendInv, BackendTypes
  <2>7. BackendTypes'
    BY <1>1, <1>2, <2>5, <2>6 DEF BackendInv, BackendTypes
  <2>8. SentIsShown'
    BY <1>1, <1>5, <2>6 DEF BackendInv, SentIsShown
  <2>9. SizeIsTold'
    BY <1>1, <1>2, <1>5, <2>1, <2>5, <2>6 DEF BackendInv, SizeIsTold
  <2> QED BY <2>7, <2>8, <2>9 DEF BackendInv
<1> QED BY <1>3, <1>4, <1>5

(* What the user types is no size. *)
LEMMA SendKeeps ==
    ASSUME BackendInv, B!Send
    PROVE  BackendInv'
<1>1. UNCHANGED <<backend, width, inband, urgent, shown, sent, asked>>
  BY DEF B!Send
<1>2. written' = IF backend.s THEN written \o <<"typed">> ELSE written
  BY DEF B!Send, B!Written
<1>3. written \in Seq(Items) /\ "typed" \in Items /\ "typed" \notin Widths
  BY InstancesAssumption DEF B!BackendsAssumption, BackendInv, BackendTypes, Items
<1>4. CASE backend.s
  <2>1. written' = written \o <<"typed">>
    BY <1>2, <1>4
  <2>2. PICK e \in Items : e = "typed"
    BY <1>3
  <2>3. /\ written' \in Seq(Items)
        /\ Told(written') = Told(written)
        /\ \A w : LastTold(written, w) => LastTold(written', w)
    BY <1>3, <2>1, <2>2, WrittenMore
  <2> QED BY <1>1, <2>3 DEF BackendInv, BackendTypes, SentIsShown, SizeIsTold
<1>5. CASE ~backend.s
  BY <1>1, <1>2, <1>5 DEF BackendInv, BackendTypes, SentIsShown, SizeIsTold
<1> QED BY <1>4, <1>5

(* The connection goes. *)
LEMMA ClosingKeeps ==
    ASSUME BackendInv, B!Closing
    PROVE  BackendInv'
<1>1. UNCHANGED <<width, inband, urgent, written, shown, sent, asked>>
      /\ backend' = [backend EXCEPT !.s = FALSE]
  BY DEF B!Closing
<1>2. /\ backend' \in [proto : {"raw", "rlogin"}, s : BOOLEAN, firstbyte : BOOLEAN,
                       cansize : BOOLEAN, term_width : Widths \union {0}]
      /\ backend'.proto = backend.proto /\ backend'.cansize = backend.cansize
      /\ backend'.term_width = backend.term_width
      /\ ~backend'.s /\ backend'.firstbyte = backend.firstbyte
  BY <1>1 DEF BackendInv, BackendTypes
<1> QED BY <1>1, <1>2 DEF BackendInv, BackendTypes, SentIsShown, SizeIsTold

(* Every step of the backends. *)
LEMMA BackendKeeps ==
    ASSUME BackendInv, B!Next
    PROVE  BackendInv'
BY HostSendsKeeps, HostUrgesKeeps, RawReceiveKeeps, RloginReceiveKeeps, UrgentKeeps,
   ResizeKeeps, SendKeeps, ClosingKeeps DEF B!Next

(* The invariant has what the run checks. *)
LEMMA BackendSound ==
    ASSUME BackendInv
    PROVE  B!TextShown /\ B!HostKnowsSize
<1>1. B!TextShown
  <2> SUFFICES ASSUME sent # <<>>, backend.firstbyte => shown # <<>>
               PROVE  shown \o inband = IF backend.proto = "rlogin" /\ sent[1] = "NUL"
                                        THEN Tail(sent) ELSE sent
    BY DEF B!TextShown, B!NUL
  <2>1. ~backend.firstbyte
    BY DEF BackendInv, SentIsShown
  <2>2. backend.proto \in {"raw", "rlogin"}
    BY DEF BackendInv, BackendTypes
  <2> QED BY <2>1, <2>2 DEF BackendInv, SentIsShown, Stripped
<1>2. B!HostKnowsSize
  <2>1. ~asked => Told(written) = {}
    BY DEF BackendInv, SizeIsTold
  <2>2. backend.s /\ backend.cansize => LastTold(written, width)
    BY DEF BackendInv, SizeIsTold
  <2> QED BY <2>1, <2>2 DEF B!HostKnowsSize, B!Open, B!SizeMessage, Told, LastTold
<1> QED BY <1>1, <1>2

(* BackendsPlain of every behaviour: the terminal gets what the host sent, in
   whatever segments it comes, and a host that asked for the size knows it. *)
THEOREM BackendsArePlain == HostSpec => []BackendsPlain
<1> DEFINE Inv == part = "backend" => BackendInv
<1>1. HostInit => Inv
  BY BackendInit DEF HostInit
<1>2. Inv /\ [HostNext]_allVars => Inv'
  <2> SUFFICES ASSUME Inv, [HostNext]_allVars, part' = "backend"
               PROVE  BackendInv'
    OBVIOUS
  <2>1. CASE BackendStep
    BY <2>1, BackendKeeps DEF BackendStep
  <2>2. CASE TelnetStep \/ InputStep \/ PrintingStep
    BY <2>2 DEF TelnetStep, InputStep, PrintingStep
  <2>3. CASE UNCHANGED allVars
    <3>1. UNCHANGED <<part, backendVars>>
      BY <2>3 DEF allVars
    <3>2. part = "backend" /\ BackendInv
      BY <3>1
    <3> QED BY <3>1, <3>2 DEF backendVars, BackendInv, BackendTypes, SentIsShown, SizeIsTold
  <2> QED BY <2>1, <2>2, <2>3 DEF HostNext
<1>3. Inv => BackendsPlain
  BY BackendSound DEF BackendsPlain
<1> QED BY <1>1, <1>2, <1>3, PTL DEF HostSpec

(*****************************************************************************)
(* The captures for the printer and the port.                                *)
(*****************************************************************************)
Captures(t) ==
    [on : BOOLEAN, only : BOOLEAN, state : 0 .. Len(t), saved : -1 .. 2,
     buf : Seq(I!Byte), out : Seq(I!Byte), job : Seq(I!Byte),
     end : {"none", "terminator", "sequence", "reset", "crash"}, twice : BOOLEAN]

(* The buffer ends with as much of the terminator as has been seen: the one that
   starts with ESC [, or with the 8-bit CSI, which is one byte less. *)
EndsWith(s, t, n) == n <= Len(s) /\ \A i \in 1 .. n : s[Len(s) - n + i] = t[i]
EndFor(saved, t) == IF saved = -1 THEN I!PrintEnd8 ELSE t
Counts(seen, saved, t) ==
    /\ saved = -1 => t = I!PrintEnd /\ seen # 1
    /\ seen > 0 => saved \in {-1, 0}
Seen(p, t) == p.state > 0 => EndsWith(p.buf, EndFor(p.saved, t), p.state + p.saved)

CaptureInv(p, t) ==
    /\ p \in Captures(t)
    /\ p.on => p.end = "none" /\ p.state < Len(t) /\ Seen(p, t)
    /\ p.on /\ ~p.only => p.state = 0
    /\ ~p.on => ~p.only
    /\ Counts(p.state, p.saved, t)
    /\ I!Faithful(p, t)

(* The last n bytes that are held back are no start of a terminator. *)
NoStart(s, n) == \A i \in 1 .. Len(s) : i > Len(s) - n => s[i] \notin {"ESC", "CSI"}

Terminators == {I!PrintEnd, I!PortEnd}

LEMMA TerminatorFacts ==
    ASSUME NEW t \in Terminators
    PROVE  t \in Seq(I!Byte) /\ Len(t) \in {4, 6} /\ t[1] = "ESC"
<1>1. {"ESC", "[", "4", "i", "/", "5", "1", "l"} \subseteq I!Byte
  BY DEF I!Byte, I!Digits
<1>2. CASE t = <<"ESC", "[", "4", "i">>
  BY <1>1, <1>2
<1>3. CASE t = <<"ESC", "[", "/", "5", "1", "l">>
  BY <1>1, <1>3
<1> QED BY <1>2, <1>3 DEF Terminators, I!PrintEnd, I!PortEnd

LEMMA PrintEndsAre ==
    /\ I!PrintEnd \in Terminators /\ I!PortEnd \in Terminators /\ I!PrintEnd # I!PortEnd
    /\ Len(I!PrintEnd) = 4 /\ Len(I!PrintEnd8) = 3 /\ I!PrintEnd8 \in Seq(I!Byte)
    /\ I!PrintEnd8[1] = "CSI"
    /\ \A k \in {2, 3} : I!PrintEnd[k + 1] = I!PrintEnd8[k]
<1>1. {"CSI", "4", "i"} \subseteq I!Byte
  BY DEF I!Byte, I!Digits
<1>2. <<"CSI", "4", "i">> \in Seq(I!Byte)
  BY <1>1
<1>3. Len(I!PrintEnd) = 4 /\ Len(I!PortEnd) = 6
  BY DEF I!PrintEnd, I!PortEnd
<1> QED BY <1>2, <1>3 DEF I!PrintEnd, I!PrintEnd8, Terminators

(* What a terminator starts with. *)
LEMMA StartFacts ==
    ASSUME NEW t \in Terminators
    PROVE  /\ I!Starts(t) \subseteq {"ESC", "CSI"}
           /\ \A e \in I!Ends(t) : e[1] \in I!Starts(t)
           /\ \A b : I!EightBit(b, t) => b = "CSI" /\ t = I!PrintEnd
<1>1. I!Ends(t) \subseteq {t, I!PrintEnd8} /\ (t # I!PrintEnd => I!Ends(t) = {t})
  BY DEF I!Ends
<1>2. t[1] = "ESC" /\ I!PrintEnd8[1] = "CSI"
  BY TerminatorFacts, PrintEndsAre
<1>3. t # I!PrintEnd => I!Starts(t) = {"ESC"}
  BY <1>1, <1>2 DEF I!Starts
<1> QED BY <1>1, <1>2, <1>3 DEF I!Starts, I!EightBit

(* The first start of a terminator is within the bytes, or there is none. *)
LEMMA BeforeStartFacts ==
    ASSUME NEW t \in Terminators, NEW s \in Seq(I!Byte)
    PROVE  /\ I!BeforeStart(s, t) \in -1 .. Len(s)
           /\ NoStart(s, Len(s)) => I!BeforeStart(s, t) = -1
           /\ Len(s) > 0 /\ s[1] \in I!Starts(t) => I!BeforeStart(s, t) = 0
<1>1. PICK J : J = {i \in 1 .. Len(s) : s[i] \in I!Starts(t)}
  OBVIOUS
<1>2. Len(s) \in Nat
  BY LenProperties
<1>3. I!BeforeStart(s, t) = (IF J # {} THEN CHOOSE x \in J : \A y \in J : x =< y ELSE 0) - 1
  BY <1>1 DEF I!BeforeStart, I!SelectInSeq, I!Min
<1>4. NoStart(s, Len(s)) => J = {}
  BY <1>1, <1>2, StartFacts DEF NoStart
<1>5. ASSUME J # {} PROVE \E x \in J : \A y \in J : x =< y
  <2>1. J \subseteq Nat
    BY <1>1, <1>2
  <2> QED BY <1>5, <2>1, LeastOf
<1>6. J # {} => (CHOOSE x \in J : \A y \in J : x =< y) \in 1 .. Len(s)
  BY <1>1, <1>5
<1>7. PICK c : c = CHOOSE x \in J : \A y \in J : x =< y
  OBVIOUS
<1>8. J # {} => c \in J /\ \A y \in J : c =< y
  BY <1>5, <1>7
<1>9. Len(s) > 0 /\ s[1] \in I!Starts(t) => 1 \in J
  BY <1>1, <1>2
<1>10. 1 \in J => c = 1
  BY <1>1, <1>2, <1>8
<1> QED BY <1>2, <1>3, <1>4, <1>6, <1>7, <1>9, <1>10

(* One sequence is the end of another. *)
EndOf(r, s) == Len(r) <= Len(s) /\ \A i \in 1 .. Len(r) : r[i] = s[Len(s) - Len(r) + i]

LEMMA RestIsEnd ==
    ASSUME NEW S, NEW s \in Seq(S), NEW n \in 0 .. Len(s), NEW r, r = SubSeq(s, n + 1, Len(s))
    PROVE  EndOf(r, s)
<1>1. Len(r) = Len(s) - n /\ Len(s) \in Nat
  BY CutSeq, LenProperties
<1>2. PICK m \in Nat : m = Len(s)
  BY <1>1
<1>3. n + 1 \in Int /\ m \in Int /\ \A i \in n + 1 .. m : s[i] \in S
  BY <1>2
<1>4. \A i \in 1 .. m - n : SubSeq(s, n + 1, m)[i] = s[(n + 1) + i - 1]
  BY <1>2, <1>3, SubSeqProperties
<1>5. PICK k \in Nat : k = m - n
  <2>1. m - n \in Nat
    BY <1>2
  <2> QED BY <2>1
<1>6. Len(r) = k /\ k <= m
  BY <1>1, <1>2, <1>5
<1>7. ASSUME NEW i \in 1 .. k PROVE r[i] = s[m - k + i]
  <2>1. r[i] = s[(n + 1) + i - 1]
    BY <1>2, <1>4, <1>5
  <2>2. (n + 1) + i - 1 = m - k + i
    BY <1>2, <1>5
  <2> QED BY <2>1, <2>2
<1> QED BY <1>2, <1>6, <1>7 DEF EndOf

(* What holds of the end of a sequence holds of a longer one it is the end of. *)
LEMMA EndEndsWith ==
    ASSUME NEW S, NEW s \in Seq(S), NEW r \in Seq(S), EndOf(r, s),
           NEW t, NEW n \in Nat, n <= Len(r), EndsWith(s, t, n)
    PROVE  EndsWith(r, t, n)
<1>1. PICK l \in Nat : l = Len(s)
  BY LenProperties
<1>2. PICK k \in Nat : k = Len(r) /\ n <= k /\ k <= l
  BY <1>1, LenProperties DEF EndOf
<1>3. ASSUME NEW i \in 1 .. n PROVE r[k - n + i] = t[i]
  <2>1. k - n + i \in 1 .. k /\ l - k + (k - n + i) = l - n + i
    BY <1>1, <1>2
  <2>2. r[k - n + i] = s[l - k + (k - n + i)]
    BY <1>1, <1>2, <2>1 DEF EndOf
  <2> QED BY <1>1, <2>1, <2>2 DEF EndsWith
<1> QED BY <1>2, <1>3 DEF EndsWith

LEMMA EndNoStart ==
    ASSUME NEW S, NEW s \in Seq(S), NEW r \in Seq(S), EndOf(r, s),
           NEW n \in Nat, NoStart(s, n)
    PROVE  NoStart(r, n)
<1>1. PICK l \in Nat : l = Len(s)
  BY LenProperties
<1>2. PICK k \in Nat : k = Len(r) /\ k <= l
  BY <1>1, LenProperties DEF EndOf
<1>3. ASSUME NEW i \in 1 .. k, i > k - n PROVE r[i] \notin {"ESC", "CSI"}
  <2>1. l - k + i \in 1 .. l /\ l - k + i > l - n
    BY <1>1, <1>2, <1>3
  <2>2. r[i] = s[l - k + i]
    BY <1>1, <1>2 DEF EndOf
  <2> QED BY <1>1, <2>1, <2>2 DEF NoStart
<1> QED BY <1>2, <1>3 DEF NoStart

(* What is written of the buffer: all but so many bytes. *)
Wrote(p, q, keep) ==
    /\ q.on = p.on /\ q.only = p.only /\ q.saved = p.saved /\ q.state = p.state
    /\ q.end = p.end /\ q.twice = p.twice /\ q.job = p.job
    /\ q.out \o q.buf = p.out \o p.buf
    /\ Len(q.buf) = IF Len(p.buf) > keep THEN keep ELSE Len(p.buf)
    /\ EndOf(q.buf, p.buf)

LEMMA WrittenFacts ==
    ASSUME NEW t \in Terminators, NEW p \in Captures(t), NEW keep \in Nat,
           NEW q, q = I!Written(p, keep)
    PROVE  q \in Captures(t) /\ Wrote(p, q, keep)
<1>1. PICK b \in Seq(I!Byte) : b = p.buf
  BY DEF Captures
<1>2. PICK o \in Seq(I!Byte) : o = p.out
  BY DEF Captures
<1>3. Len(b) \in Nat
  BY LenProperties
<1>4. PICK n \in 0 .. Len(b) : n = IF Len(b) > keep THEN Len(b) - keep ELSE 0
  <2>1. (IF Len(b) > keep THEN Len(b) - keep ELSE 0) \in 0 .. Len(b)
    BY <1>3
  <2> QED BY <2>1
<1>5. PICK f \in Seq(I!Byte) : f = SubSeq(b, 1, n)
  BY CutSeq
<1>6. PICK r \in Seq(I!Byte) : r = SubSeq(b, n + 1, Len(b))
  BY CutSeq
<1>7. q = [p EXCEPT !.out = o \o f, !.buf = r]
  BY <1>1, <1>2, <1>4, <1>5, <1>6 DEF I!Written, Captures
<1>8. o \o f \in Seq(I!Byte)
  BY ConcatProperties
<1>9. /\ q.out = o \o f /\ q.buf = r /\ q \in Captures(t)
      /\ q.on = p.on /\ q.only = p.only /\ q.saved = p.saved /\ q.state = p.state
      /\ q.end = p.end /\ q.twice = p.twice /\ q.job = p.job
  BY <1>7, <1>8 DEF Captures
<1>10. (o \o f) \o r = o \o b
  BY <1>5, <1>6, MoveSeq
<1>11. Len(r) = Len(b) - n
  BY <1>6, CutSeq
<1>12. EndOf(r, b)
  BY <1>6, RestIsEnd
<1>13. Len(r) = IF Len(b) > keep THEN keep ELSE Len(b)
  BY <1>3, <1>4, <1>11
<1> QED BY <1>1, <1>2, <1>9, <1>10, <1>12, <1>13 DEF Wrote

(* A job in which the program ends was printed as far as it came. *)
LEMMA CaptureCrashes ==
    ASSUME NEW t \in Terminators, NEW p, CaptureInv(p, t), p.on, NEW q, q = I!Crash(p)
    PROVE  CaptureInv(q, t) /\ ~q.on /\ ~q.only /\ q.saved = p.saved
<1>1. p \in Captures(t) /\ (~p.twice => p.job = p.out \o p.buf)
  BY DEF CaptureInv, I!Faithful
<1>2. PICK w : w = I!Written(p, 0)
  OBVIOUS
<1>3. w \in Captures(t) /\ Wrote(p, w, 0)
  BY <1>1, <1>2, WrittenFacts
<1>4. PICK o \in Seq(I!Byte) : o = w.out
  BY <1>3 DEF Captures
<1>5. w.buf \in Seq(I!Byte) /\ Len(w.buf) = 0
  <2>1. p.buf \in Seq(I!Byte) /\ Len(p.buf) \in Nat
    BY <1>1, LenProperties DEF Captures
  <2> QED BY <1>3, <2>1 DEF Wrote, Captures
<1>6. o \o w.buf = o
  BY <1>5, EmptySeq, ConcatEmptySeq
<1>7. q = [w EXCEPT !.on = FALSE, !.only = FALSE, !.end = "crash"]
  BY <1>2 DEF I!Crash
<1>8. /\ q \in Captures(t)
      /\ ~q.on /\ ~q.only /\ q.end = "crash" /\ q.out = o
      /\ q.state = p.state /\ q.saved = p.saved /\ q.job = p.job /\ q.twice = p.twice
  BY <1>3, <1>4, <1>7 DEF Captures, Wrote
<1>9. ~p.twice => p.job = o
  BY <1>1, <1>3, <1>4, <1>6 DEF Wrote
<1>10. I!Faithful(q, t)
  BY <1>8, <1>9 DEF I!Faithful
<1> QED BY <1>8, <1>10 DEF CaptureInv

(* The end of a call of term_out() keeps a capture. *)
LEMMA FlushKeeps ==
    ASSUME NEW t \in Terminators, NEW p, CaptureInv(p, t), NEW q, q = I!Flush(p)
    PROVE  /\ CaptureInv(q, t)
           /\ q.saved = p.saved /\ (q.on => p.on /\ q.only = p.only)
           /\ \A n \in Nat : q.on /\ NoStart(p.buf, n) => NoStart(q.buf, n)
<1>1. CASE ~p.on
  BY <1>1 DEF I!Flush
<1>2. CASE p.on /\ I!Held(p) < 0
  <2>1. q = I!Crash(p)
    BY <1>2 DEF I!Flush
  <2> QED BY <1>2, <2>1, CaptureCrashes
<1>3. CASE p.on /\ ~(I!Held(p) < 0)
  <2>1. p \in Captures(t)
    BY DEF CaptureInv
  <2>2. PICK m \in Nat : m = p.state
    <3>1. p.state \in 0 .. Len(t)
      BY <2>1 DEF Captures
    <3> QED BY <3>1, TerminatorFacts
  <2>3. PICK v \in -1 .. 2 : v = p.saved
    BY <2>1 DEF Captures
  <2>4. PICK keep \in Nat : keep = m + v
    <3>1. ~(m + v < 0)
      BY <1>3, <2>2, <2>3 DEF I!Held
    <3>2. m + v \in Nat
      BY <3>1
    <3> QED BY <3>2
  <2>5. q = I!Written(p, keep)
    BY <1>3, <2>2, <2>3, <2>4 DEF I!Flush, I!Held
  <2>6. /\ q \in Captures(t)
        /\ /\ q.on = p.on /\ q.only = p.only /\ q.saved = p.saved /\ q.state = p.state
           /\ q.end = p.end /\ q.twice = p.twice /\ q.job = p.job
        /\ q.out \o q.buf = p.out \o p.buf
        /\ Len(q.buf) = IF Len(p.buf) > keep THEN keep ELSE Len(p.buf)
        /\ EndOf(q.buf, p.buf)
    <3>1. q \in Captures(t) /\ Wrote(p, q, keep)
      BY <2>1, <2>5, WrittenFacts
    <3> QED BY <3>1 DEF Wrote
  <2>7. q.buf \in Seq(I!Byte) /\ p.buf \in Seq(I!Byte) /\ Len(p.buf) \in Nat
    BY <2>1, <2>6, LenProperties DEF Captures
  <2>8. Seen(q, t)
    <3> SUFFICES ASSUME m > 0 PROVE EndsWith(q.buf, EndFor(v, t), keep)
      BY <2>2, <2>3, <2>4, <2>6 DEF Seen
    <3>1. EndsWith(p.buf, EndFor(v, t), keep)
      BY <1>3, <2>2, <2>3, <2>4 DEF CaptureInv, Seen
    <3>2. PICK e : e = EndFor(v, t)
      OBVIOUS
    <3>3. keep <= Len(p.buf)
      BY <3>1 DEF EndsWith
    <3>4. keep <= Len(q.buf)
      BY <2>4, <2>6, <2>7, <3>3
    <3>5. EndsWith(q.buf, e, keep)
      BY <2>6, <2>7, <3>1, <3>2, <3>4, EndEndsWith
    <3> QED BY <3>2, <3>5
  <2>9. I!Faithful(q, t)
    BY <1>3, <2>6 DEF CaptureInv, I!Faithful
  <2>10. CaptureInv(q, t)
    BY <1>3, <2>6, <2>8, <2>9 DEF CaptureInv
  <2>11. ASSUME NEW n \in Nat, NoStart(p.buf, n) PROVE NoStart(q.buf, n)
    BY <2>6, <2>7, <2>11, EndNoStart
  <2> QED BY <1>3, <2>6, <2>10, <2>11
<1> QED BY <1>1, <1>2, <1>3 DEF CaptureInv, Captures

(* A byte is taken into a buffer. *)
Took(p, q, b) ==
    /\ q.on = p.on /\ q.only = p.only /\ q.saved = p.saved /\ q.state = p.state
    /\ q.end = p.end
    /\ q.buf = Append(p.buf, b)
    /\ ~q.twice => q.job = q.out \o q.buf

LEMMA TakeFacts ==
    ASSUME NEW t \in Terminators, NEW p \in Captures(t), p.on, I!Faithful(p, t),
           NEW b \in I!Byte, NEW fresh \in BOOLEAN, NEW q, q = I!Take(p, b, fresh)
    PROVE  q \in Captures(t) /\ Took(p, q, b)
<1>1. PICK u \in Seq(I!Byte) : u = p.buf
  BY DEF Captures
<1>2. PICK o \in Seq(I!Byte) : o = p.out
  BY DEF Captures
<1>3. PICK j \in Seq(I!Byte) : j = p.job
  BY DEF Captures
<1>4. Append(u, b) \in Seq(I!Byte) /\ Append(j, b) \in Seq(I!Byte)
  OBVIOUS
<1>5. q = [p EXCEPT !.buf = Append(u, b), !.job = IF fresh THEN Append(j, b) ELSE j,
                    !.twice = p.twice \/ ~fresh]
  BY <1>1, <1>3 DEF I!Take, Captures
<1>6. /\ q \in Captures(t)
      /\ q.on = p.on /\ q.only = p.only /\ q.saved = p.saved /\ q.state = p.state
      /\ q.end = p.end /\ q.out = o /\ q.buf = Append(u, b)
      /\ q.job = IF fresh THEN Append(j, b) ELSE j
      /\ q.twice = (p.twice \/ ~fresh)
  BY <1>2, <1>4, <1>5 DEF Captures
<1>7. o \o Append(u, b) = Append(o \o u, b)
  BY MoreSeq
<1>8. ~p.twice => j = o \o u
  BY <1>1, <1>2, <1>3 DEF I!Faithful
<1> QED BY <1>1, <1>6, <1>7, <1>8 DEF Took

(* A capture of what is also shown takes a byte. *)
LEMMA CopyKeeps ==
    ASSUME NEW t \in Terminators, NEW p, CaptureInv(p, t), p.on, ~p.only,
           NEW b \in I!Byte, NEW fresh \in BOOLEAN, NEW q, q = I!Take(p, b, fresh)
    PROVE  /\ CaptureInv(q, t)
           /\ q.on /\ ~q.only /\ q.saved = p.saved /\ q.buf = Append(p.buf, b)
<1>1. /\ q \in Captures(t)
      /\ /\ q.on = p.on /\ q.only = p.only /\ q.saved = p.saved /\ q.state = p.state
         /\ q.end = p.end
      /\ q.buf = Append(p.buf, b)
      /\ ~q.twice => q.job = q.out \o q.buf
  <2>1. p \in Captures(t) /\ I!Faithful(p, t)
    BY DEF CaptureInv
  <2>2. q \in Captures(t) /\ Took(p, q, b)
    BY <2>1, TakeFacts
  <2> QED BY <2>2 DEF Took
<1>2. p.state = 0 /\ Len(t) \in {4, 6}
  BY TerminatorFacts DEF CaptureInv
<1>3. Seen(q, t)
  BY <1>1, <1>2 DEF Seen
<1>4. I!Faithful(q, t)
  BY <1>1 DEF CaptureInv, I!Faithful
<1> QED BY <1>1, <1>2, <1>3, <1>4 DEF CaptureInv

(* A byte more of the buffer: what it ends with, and how far the last start is. *)
LEMMA MoreEnd ==
    ASSUME NEW t, NEW s \in Seq(I!Byte), NEW b \in I!Byte, NEW n \in Nat,
           EndsWith(s, t, n), b = t[n + 1], NEW r, r = Append(s, b)
    PROVE  EndsWith(r, t, n + 1)
<1>1. PICK l \in Nat : l = Len(s)
  BY LenProperties
<1>2. Len(r) = l + 1 /\ r[l + 1] = b /\ \A i \in 1 .. l : r[i] = s[i]
  BY <1>1, AppendProperties
<1>3. n <= l /\ \A i \in 1 .. n : s[l - n + i] = t[i]
  BY <1>1 DEF EndsWith
<1>4. ASSUME NEW i \in 1 .. n + 1 PROVE r[(l + 1) - (n + 1) + i] = t[i]
  <2>1. CASE i = n + 1
    <3>1. (l + 1) - (n + 1) + i = l + 1
      BY <1>3, <2>1
    <3> QED BY <1>2, <2>1, <3>1
  <2>2. CASE i \in 1 .. n
    <3>1. (l + 1) - (n + 1) + i = l - n + i /\ l - n + i \in 1 .. l
      BY <1>3, <2>2
    <3> QED BY <1>2, <1>3, <2>2, <3>1
  <2>3. i = n + 1 \/ i \in 1 .. n
    OBVIOUS
  <2> QED BY <2>1, <2>2, <2>3
<1>5. n + 1 <= l + 1
  BY <1>3
<1> QED BY <1>2, <1>4, <1>5 DEF EndsWith

(* No start among the last bytes of one byte more. *)
LEMMA MoreNoStart ==
    ASSUME NEW s \in Seq(I!Byte), NEW b \in I!Byte, b \notin {"ESC", "CSI"},
           NEW n \in Nat, NoStart(s, n), NEW r, r = Append(s, b)
    PROVE  NoStart(r, n + 1)
<1>1. PICK l \in Nat : l = Len(s)
  BY LenProperties
<1>2. Len(r) = l + 1 /\ r[l + 1] = b /\ \A i \in 1 .. l : r[i] = s[i]
  BY <1>1, AppendProperties
<1>3. ASSUME NEW i \in 1 .. l + 1, i > l + 1 - (n + 1) PROVE r[i] \notin {"ESC", "CSI"}
  <2>1. CASE i = l + 1
    BY <1>2, <2>1
  <2>2. CASE i \in 1 .. l
    BY <1>1, <1>2, <1>3, <2>2 DEF NoStart
  <2>3. i = l + 1 \/ i \in 1 .. l
    OBVIOUS
  <2> QED BY <2>1, <2>2, <2>3
<1> QED BY <1>2, <1>3 DEF NoStart

LEMMA LastNoStart ==
    ASSUME NEW s \in Seq(I!Byte), NEW b \in I!Byte, b \notin {"ESC", "CSI"},
           NEW r, r = Append(s, b)
    PROVE  NoStart(r, 1)
<1>1. NoStart(s, 0)
  BY LenProperties DEF NoStart
<1>2. NoStart(r, 0 + 1)
  BY <1>1, MoreNoStart
<1> QED BY <1>2

(* A job that ends: what is held back is written up to the first start. *)
Kept(p, f) ==
    /\ f.out \o f.buf = p.out \o p.buf
    /\ Len(f.buf) = IF Len(p.buf) > p.state + p.saved THEN p.state + p.saved ELSE Len(p.buf)
    /\ EndOf(f.buf, p.buf)
Ended(p, f, n, q, how, t) ==
    /\ n = IF I!BeforeStart(f.buf, t) = -1 THEN Len(f.buf) ELSE I!BeforeStart(f.buf, t)
    /\ q.out = f.out \o SubSeq(f.buf, 1, n)
    /\ ~q.on /\ ~q.only /\ q.end = how /\ q.buf = <<>>
    /\ q.state = p.state /\ q.saved = p.saved /\ q.job = p.job /\ q.twice = p.twice

LEMMA FinishFacts ==
    ASSUME NEW t \in Terminators, NEW p \in Captures(t), p.on, ~(I!Held(p) < 0),
           NEW how \in {"terminator", "sequence", "reset"}, NEW q, q = I!Finish(p, how, t)
    PROVE  /\ q \in Captures(t)
           /\ \E f \in Captures(t) : \E n \in 0 .. Len(f.buf) :
                 Kept(p, f) /\ Ended(p, f, n, q, how, t)
<1>1. PICK keep \in Nat : keep = p.state + p.saved
  <2>1. p.state \in 0 .. Len(t) /\ p.saved \in -1 .. 2
    BY DEF Captures
  <2>2. p.state + p.saved \in Nat
    BY <2>1, TerminatorFacts DEF I!Held
  <2> QED BY <2>2
<1>2. PICK f : f = I!Flush(p)
  OBVIOUS
<1>3. f = I!Written(p, keep)
  BY <1>1, <1>2 DEF I!Flush, I!Held
<1>4. /\ f \in Captures(t)
      /\ /\ f.on = p.on /\ f.only = p.only /\ f.saved = p.saved /\ f.state = p.state
         /\ f.end = p.end /\ f.twice = p.twice /\ f.job = p.job
      /\ f.out \o f.buf = p.out \o p.buf
      /\ Len(f.buf) = IF Len(p.buf) > keep THEN keep ELSE Len(p.buf)
      /\ EndOf(f.buf, p.buf)
  <2>1. f \in Captures(t) /\ Wrote(p, f, keep)
    BY <1>3, WrittenFacts
  <2> QED BY <2>1 DEF Wrote
<1>5. PICK u \in Seq(I!Byte) : u = f.buf
  BY <1>4 DEF Captures
<1>6. PICK o \in Seq(I!Byte) : o = f.out
  BY <1>4 DEF Captures
<1>7. PICK e \in -1 .. Len(u) : e = I!BeforeStart(u, t)
  BY BeforeStartFacts
<1>8. Len(u) \in Nat
  BY LenProperties
<1>9. PICK n \in 0 .. Len(u) : n = IF e = -1 THEN Len(u) ELSE e
  <2>1. (IF e = -1 THEN Len(u) ELSE e) \in 0 .. Len(u)
    BY <1>7, <1>8
  <2> QED BY <2>1
<1>10. PICK w \in Seq(I!Byte) : w = SubSeq(u, 1, n)
  BY CutSeq
<1>11. w = IF e = -1 THEN u ELSE SubSeq(u, 1, e)
  BY <1>9, <1>10, SubSeqFull
<1>12. q = [f EXCEPT !.on = FALSE, !.only = FALSE, !.buf = <<>>, !.end = how, !.out = o \o w]
  BY <1>2, <1>4, <1>5, <1>6, <1>7, <1>11 DEF I!Finish, Captures
<1>13. o \o w \in Seq(I!Byte) /\ <<>> \in Seq(I!Byte)
  BY ConcatProperties
<1>14. /\ q \in Captures(t)
       /\ ~q.on /\ ~q.only /\ q.end = how /\ q.buf = <<>> /\ q.out = o \o w
       /\ q.state = f.state /\ q.saved = f.saved /\ q.job = f.job /\ q.twice = f.twice
  BY <1>4, <1>12, <1>13 DEF Captures
<1>15. Kept(p, f)
  BY <1>1, <1>4 DEF Kept
<1>16. Ended(p, f, n, q, how, t)
  BY <1>4, <1>5, <1>6, <1>7, <1>9, <1>10, <1>14 DEF Ended
<1> QED BY <1>4, <1>5, <1>14, <1>15, <1>16

(* Finishing what is off, or what ends the program. *)
LEMMA FinishElse ==
    ASSUME NEW t \in Terminators, NEW p, CaptureInv(p, t), ~p.on \/ I!Held(p) < 0,
           NEW how, NEW q, q = I!Finish(p, how, t)
    PROVE  CaptureInv(q, t) /\ ~q.on
<1>1. CASE ~p.on
  BY <1>1 DEF I!Finish, I!Flush
<1>2. CASE p.on
  <2>1. PICK c : c = I!Crash(p)
    OBVIOUS
  <2>2. CaptureInv(c, t) /\ ~c.on
    BY <1>2, <2>1, CaptureCrashes
  <2>3. c = I!Flush(p)
    BY <1>2, <2>1 DEF I!Flush
  <2> QED BY <2>2, <2>3 DEF I!Finish
<1> QED BY <1>1, <1>2 DEF CaptureInv, Captures

(* What has ended needs no more than what was written. *)
LEMMA EndedInv ==
    ASSUME NEW t \in Terminators, NEW p, CaptureInv(p, t), NEW q \in Captures(t), ~q.on, ~q.only,
           q.state = p.state, q.saved = p.saved, I!Faithful(q, t)
    PROVE  CaptureInv(q, t)
BY DEF CaptureInv

(* A reset prints a part of the job, from its start. *)
LEMMA FinishByReset ==
    ASSUME NEW t \in Terminators, NEW p, CaptureInv(p, t), NEW q, q = I!Finish(p, "reset", t)
    PROVE  CaptureInv(q, t) /\ ~q.on
<1>1. CASE ~p.on \/ I!Held(p) < 0
  BY <1>1, FinishElse
<1>2. CASE p.on /\ ~(I!Held(p) < 0)
  <2>1. p \in Captures(t) /\ (~p.twice => p.job = p.out \o p.buf)
    BY <1>2 DEF CaptureInv, I!Faithful
  <2>2. PICK how \in {"terminator", "sequence", "reset"} : how = "reset"
    OBVIOUS
  <2>3. q = I!Finish(p, how, t)
    BY <2>2
  <2>4. /\ q \in Captures(t)
        /\ \E f \in Captures(t) : \E n \in 0 .. Len(f.buf) :
              Kept(p, f) /\ Ended(p, f, n, q, how, t)
    BY <1>2, <2>1, <2>3, FinishFacts
  <2>5. PICK f \in Captures(t) : \E n \in 0 .. Len(f.buf) : Kept(p, f) /\ Ended(p, f, n, q, how, t)
    BY <2>4
  <2>6. PICK n \in 0 .. Len(f.buf) : Kept(p, f) /\ Ended(p, f, n, q, how, t)
    BY <2>5
  <2>7. PICK u \in Seq(I!Byte) : u = f.buf
    BY DEF Captures
  <2>8. PICK o \in Seq(I!Byte) : o = f.out
    BY DEF Captures
  <2>9. PICK a \in Seq(I!Byte) : a = SubSeq(u, 1, n)
    BY <2>7, CutSeq
  <2>10. PICK r \in Seq(I!Byte) : r = SubSeq(u, n + 1, Len(u))
    BY <2>7, CutSeq
  <2>11. o \o u = (o \o a) \o r
    BY <2>7, <2>9, <2>10, MoveSeq
  <2>12. q.out = o \o a
    BY <2>6, <2>7, <2>8, <2>9 DEF Ended
  <2>13. ~p.twice => p.job = (o \o a) \o r
    BY <2>1, <2>6, <2>7, <2>8, <2>11 DEF Kept
  <2>14. PICK w \in Seq(I!Byte) : w = o \o a
    BY ConcatProperties
  <2>15. I!IsPrefix(w, w \o r)
    <3>1. Len(w) <= Len(w \o r)
      BY ConcatProperties, LenProperties
    <3>2. SubSeq(w \o r, 1, Len(w)) = w /\ SubSeq(w, 1, Len(w)) = w
      BY SubSeqOfConcat1, SubSeqFull, ConcatSimplifications
    <3> QED BY <3>1, <3>2 DEF I!IsPrefix
  <2>16. ~q.on /\ ~q.only /\ q.end = "reset" /\ q.job = p.job /\ q.twice = p.twice
         /\ q.state = p.state /\ q.saved = p.saved
    BY <2>2, <2>6 DEF Ended
  <2>17. I!Faithful(q, t)
    BY <2>12, <2>13, <2>14, <2>15, <2>16 DEF I!Faithful
  <2> QED BY <2>4, <2>16, <2>17, EndedInv
<1> QED BY <1>1, <1>2

(* The sequence that ends a job that is shown is printed with it. *)
LEMMA FinishBySequence ==
    ASSUME NEW t \in Terminators, NEW p, CaptureInv(p, t), p.on => ~p.only /\ NoStart(p.buf, 2),
           NEW q, q = I!Finish(p, "sequence", t)
    PROVE  CaptureInv(q, t) /\ ~q.on
<1>1. CASE ~p.on \/ I!Held(p) < 0
  BY <1>1, FinishElse
<1>2. CASE p.on /\ ~(I!Held(p) < 0)
  <2>1. p \in Captures(t) /\ (~p.twice => p.job = p.out \o p.buf)
    BY <1>2 DEF CaptureInv, I!Faithful
  <2>2. PICK how \in {"terminator", "sequence", "reset"} : how = "sequence"
    OBVIOUS
  <2>3. q = I!Finish(p, how, t)
    BY <2>2
  <2>4. /\ q \in Captures(t)
        /\ \E f \in Captures(t) : \E n \in 0 .. Len(f.buf) :
              Kept(p, f) /\ Ended(p, f, n, q, how, t)
    BY <1>2, <2>1, <2>3, FinishFacts
  <2>5. PICK f \in Captures(t) : \E n \in 0 .. Len(f.buf) : Kept(p, f) /\ Ended(p, f, n, q, how, t)
    BY <2>4
  <2>6. PICK n \in 0 .. Len(f.buf) : Kept(p, f) /\ Ended(p, f, n, q, how, t)
    BY <2>5
  <2>7. PICK u \in Seq(I!Byte) : u = f.buf
    BY DEF Captures
  <2>8. PICK o \in Seq(I!Byte) : o = f.out
    BY DEF Captures
  <2>9. PICK v \in Seq(I!Byte) : v = p.buf
    BY <2>1 DEF Captures
  <2>10. EndOf(u, v) /\ Len(u) <= 2
    <3>1. p.state = 0 /\ p.saved \in -1 .. 2
      BY <1>2, <2>1 DEF CaptureInv, Captures
    <3>2. Len(u) \in Nat /\ Len(v) \in Nat
      BY LenProperties
    <3>3. Len(u) = IF Len(v) > p.state + p.saved THEN p.state + p.saved ELSE Len(v)
      BY <2>6, <2>7, <2>9 DEF Kept
    <3>4. Len(u) <= 2
      BY <3>1, <3>2, <3>3
    <3> QED BY <2>6, <2>7, <2>9, <3>4 DEF Kept
  <2>11. NoStart(u, 2)
    BY <1>2, <2>9, <2>10, EndNoStart
  <2>12. NoStart(u, Len(u))
    BY <2>10, <2>11, LenProperties DEF NoStart
  <2>13. I!BeforeStart(u, t) = -1
    BY <2>12, BeforeStartFacts
  <2>14. q.out = o \o u
    <3>1. n = Len(u) /\ q.out = o \o SubSeq(u, 1, n)
      BY <2>6, <2>7, <2>8, <2>13 DEF Ended
    <3> QED BY <3>1, SubSeqFull
  <2>15. ~p.twice => p.job = o \o u
    BY <2>1, <2>6, <2>7, <2>8 DEF Kept
  <2>16. ~q.on /\ ~q.only /\ q.end = "sequence" /\ q.job = p.job /\ q.twice = p.twice
         /\ q.state = p.state /\ q.saved = p.saved
    BY <2>2, <2>6 DEF Ended
  <2>17. I!Faithful(q, t)
    BY <2>14, <2>15, <2>16 DEF I!Faithful
  <2> QED BY <2>4, <2>16, <2>17, EndedInv
<1> QED BY <1>1, <1>2

(* How much of the terminator has been seen with the next byte. *)
LEMMA ScanFacts ==
    ASSUME NEW t \in Terminators, NEW p, CaptureInv(p, t), p.on,
           NEW b \in I!Byte, NEW r, r = Append(p.buf, b),
           NEW m, m = I!Scan(p, b, t), NEW v, v = I!Saves(p, b, t)
    PROVE  /\ m \in 0 .. Len(t) /\ v \in -1 .. 2 /\ Counts(m, v, t)
           /\ m > 0 => EndsWith(r, EndFor(v, t), m + v)
           /\ t # I!PrintEnd => v \in {0, p.saved}
<1>1. /\ p.buf \in Seq(I!Byte) /\ p.state \in Nat /\ p.state < Len(t) /\ Seen(p, t)
      /\ Len(t) \in {4, 6} /\ t[1] = "ESC" /\ Counts(p.state, p.saved, t) /\ p.saved \in -1 .. 2
  BY TerminatorFacts DEF CaptureInv, Captures
<1>2. PICK s \in Seq(I!Byte) : s = p.buf
  BY <1>1
<1>3. PICK k \in Nat : k = p.state
  BY <1>1
<1>4. PICK w \in -1 .. 2 : w = p.saved
  BY <1>1
<1>5. r = Append(s, b) /\ r \in Seq(I!Byte)
  BY <1>2
<1>6. /\ m = IF b = "ESC" THEN 1 ELSE IF I!EightBit(b, t) THEN 2
             ELSE IF k \in 1 .. Len(t) - 1 /\ b = t[k + 1] THEN k + 1 ELSE 0
      /\ v = IF b = "ESC" THEN 0 ELSE IF I!EightBit(b, t) THEN -1 ELSE w
  BY <1>3, <1>4 DEF I!Scan, I!Saves
<1>7. EndsWith(s, t, 0) /\ EndsWith(s, I!PrintEnd8, 0)
  BY LenProperties DEF EndsWith
<1>8. CASE b = "ESC"
  <2>1. m = 1 /\ v = 0 /\ b = t[0 + 1]
    BY <1>1, <1>6, <1>8
  <2>2. EndsWith(r, t, 0 + 1)
    BY <1>5, <1>7, <2>1, MoreEnd
  <2>3. EndFor(v, t) = t /\ m + v = 0 + 1
    BY <2>1 DEF EndFor
  <2> QED BY <1>1, <2>1, <2>2, <2>3 DEF Counts
<1>9. CASE b # "ESC" /\ I!EightBit(b, t)
  <2>1. m = 2 /\ v = -1 /\ b = "CSI" /\ t = I!PrintEnd
    BY <1>6, <1>9, StartFacts
  <2>2. I!PrintEnd8[0 + 1] = "CSI"
    BY PrintEndsAre
  <2>3. EndsWith(r, I!PrintEnd8, 0 + 1)
    BY <1>5, <1>7, <2>1, <2>2, MoreEnd
  <2>4. EndFor(v, t) = I!PrintEnd8 /\ m + v = 0 + 1
    BY <2>1 DEF EndFor
  <2>5. m \in 0 .. Len(t)
    <3>1. \A l \in {4, 6} : 2 \in 0 .. l
      OBVIOUS
    <3> QED BY <1>1, <2>1, <3>1
  <2>6. EndsWith(r, EndFor(v, t), m + v)
    BY <2>3, <2>4
  <2> QED BY <2>1, <2>5, <2>6 DEF Counts
<1>10. CASE b # "ESC" /\ ~I!EightBit(b, t) /\ k \in 1 .. Len(t) - 1 /\ b = t[k + 1]
  <2>1. m = k + 1 /\ v = w /\ w \in {-1, 0}
    BY <1>1, <1>3, <1>4, <1>6, <1>10 DEF Counts
  <2>2. EndsWith(s, EndFor(w, t), k + w)
    BY <1>1, <1>2, <1>3, <1>4, <1>10 DEF Seen
  <2>3. CASE w = 0
    <3>1. EndsWith(s, t, k)
      BY <1>3, <2>2, <2>3 DEF EndFor
    <3>2. EndsWith(r, t, k + 1)
      BY <1>5, <1>10, <3>1, MoreEnd
    <3>3. EndFor(v, t) = t /\ m + v = k + 1
      BY <2>1, <2>3 DEF EndFor
    <3> QED BY <1>1, <1>3, <1>4, <2>1, <2>3, <3>2, <3>3 DEF Counts
  <2>4. CASE w = -1
    <3>1. t = I!PrintEnd /\ k # 1 /\ Len(t) = 4
      BY <1>1, <1>3, <1>4, <2>4, PrintEndsAre DEF Counts
    <3>2. k \in {2, 3}
      BY <1>10, <3>1
    <3>3. PICK j \in Nat : j = k - 1
      <4>1. k - 1 \in Nat
        BY <3>2
      <4> QED BY <4>1
    <3>4. EndsWith(s, I!PrintEnd8, j)
      <4>1. k + w = j
        BY <2>4, <3>3
      <4> QED BY <2>2, <2>4, <4>1 DEF EndFor
    <3>5. b = I!PrintEnd8[j + 1]
      <4>1. j + 1 = k
        BY <3>3
      <4>2. I!PrintEnd[k + 1] = I!PrintEnd8[k]
        BY <3>2, PrintEndsAre
      <4> QED BY <1>10, <3>1, <4>1, <4>2
    <3>6. EndsWith(r, I!PrintEnd8, j + 1)
      BY <1>5, <3>4, <3>5, MoreEnd
    <3>7. EndFor(v, t) = I!PrintEnd8 /\ m + v = j + 1
      BY <2>1, <2>4, <3>3 DEF EndFor
    <3> QED BY <1>1, <1>3, <1>4, <2>1, <2>4, <3>1, <3>2, <3>6, <3>7 DEF Counts
  <2> QED BY <2>1, <2>3, <2>4
<1>11. CASE b # "ESC" /\ ~I!EightBit(b, t) /\ ~(k \in 1 .. Len(t) - 1 /\ b = t[k + 1])
  <2>1. m = 0 /\ 0 \in 0 .. Len(t) /\ v = w
    BY <1>1, <1>6, <1>11
  <2> QED BY <1>1, <1>4, <2>1 DEF Counts
<1> QED BY <1>8, <1>9, <1>10, <1>11

(* A capture of what is kept from the screen takes a byte: when it is the last of
   the terminator the job ends. *)
LEMMA TakeOnlyKeeps ==
    ASSUME NEW t \in Terminators, NEW p, CaptureInv(p, t), p.on, p.only,
           NEW b \in I!Byte, NEW fresh \in BOOLEAN, NEW q, q = I!TakeOnly(p, b, fresh, t)
    PROVE  /\ CaptureInv(q, t) /\ (q.on => q.only)
           /\ t # I!PrintEnd /\ p.saved = 0 => q.saved = 0
<1>1. p \in Captures(t) /\ I!Faithful(p, t) /\ p.end = "none"
  BY DEF CaptureInv
<1>2. PICK a : a = I!Take(p, b, fresh)
  OBVIOUS
<1>3. a \in Captures(t) /\ Took(p, a, b)
  BY <1>1, <1>2, TakeFacts
<1>4. PICK m : m = I!Scan(p, b, t)
  OBVIOUS
<1>5. PICK v : v = I!Saves(p, b, t)
  OBVIOUS
<1>6. /\ m \in 0 .. Len(t) /\ v \in -1 .. 2 /\ Counts(m, v, t)
      /\ m > 0 => EndsWith(a.buf, EndFor(v, t), m + v)
      /\ t # I!PrintEnd => v \in {0, p.saved}
  BY <1>3, <1>4, <1>5, ScanFacts DEF Took
<1>7. PICK c : c = [a EXCEPT !.state = m, !.saved = v]
  OBVIOUS
<1>8. /\ c \in Captures(t)
      /\ c.on /\ c.only /\ c.end = "none" /\ c.state = m /\ c.saved = v
      /\ c.buf = a.buf /\ (~c.twice => c.job = c.out \o c.buf)
  BY <1>1, <1>3, <1>6, <1>7 DEF Took, Captures
<1>9. q = IF m = Len(t) THEN I!Finish(c, "terminator", t) ELSE c
  BY <1>2, <1>3, <1>4, <1>5, <1>6, <1>7, <1>8 DEF I!TakeOnly, Took, Captures
<1>10. Len(t) \in {4, 6} /\ t \in Seq(I!Byte)
  BY TerminatorFacts
<1>11. CASE m # Len(t)
  <2>1. q = c /\ m < Len(t)
    BY <1>6, <1>9, <1>10, <1>11
  <2>2. I!Faithful(c, t)
    BY <1>8 DEF I!Faithful
  <2>3. Seen(c, t)
    BY <1>6, <1>8 DEF Seen
  <2> QED BY <1>6, <1>8, <2>1, <2>2, <2>3 DEF CaptureInv
<1>12. CASE m = Len(t)
  <2>1. PICK how \in {"terminator", "sequence", "reset"} : how = "terminator"
    OBVIOUS
  <2>2. PICK e : e = EndFor(v, t)
    OBVIOUS
  <2>3. PICK h \in Nat : h = m + v
    <3>1. m + v \in Nat
      BY <1>6, <1>10, <1>12
    <3> QED BY <3>1
  <2>4. e \in Seq(I!Byte) /\ Len(e) = h /\ h > 0 /\ e \in I!Ends(t) /\ v \in {-1, 0}
    <3>1. v \in {-1, 0} /\ (v = -1 => t = I!PrintEnd)
      BY <1>6, <1>10, <1>12 DEF Counts
    <3>2. CASE v = 0
      BY <1>10, <1>12, <2>2, <2>3, <3>2 DEF EndFor, I!Ends
    <3>3. CASE v = -1
      <4>1. t = I!PrintEnd /\ e = I!PrintEnd8 /\ Len(t) = 4 /\ Len(e) = 3 /\ e \in Seq(I!Byte)
        BY <2>2, <3>1, <3>3, PrintEndsAre DEF EndFor
      <4> QED BY <1>12, <2>3, <3>3, <4>1 DEF I!Ends
    <3> QED BY <3>1, <3>2, <3>3
  <2>5. ~(I!Held(c) < 0)
    BY <1>8, <2>3 DEF I!Held
  <2>6. q = I!Finish(c, how, t)
    BY <1>9, <1>12, <2>1
  <2>7. /\ q \in Captures(t)
        /\ \E f \in Captures(t) : \E n \in 0 .. Len(f.buf) :
              Kept(c, f) /\ Ended(c, f, n, q, how, t)
    BY <1>8, <2>5, <2>6, FinishFacts
  <2>8. PICK f \in Captures(t) : \E n \in 0 .. Len(f.buf) : Kept(c, f) /\ Ended(c, f, n, q, how, t)
    BY <2>7
  <2>9. PICK n \in 0 .. Len(f.buf) : Kept(c, f) /\ Ended(c, f, n, q, how, t)
    BY <2>8
  <2>10. PICK u \in Seq(I!Byte) : u = f.buf
    BY DEF Captures
  <2>11. PICK o \in Seq(I!Byte) : o = f.out
    BY DEF Captures
  <2>12. PICK w \in Seq(I!Byte) : w = c.buf
    BY <1>8 DEF Captures
  <2>13. Len(w) \in Nat /\ h <= Len(w) /\ EndsWith(w, e, h)
    <3>1. m > 0
      <4>1. \A l \in {4, 6} : l > 0
        OBVIOUS
      <4> QED BY <1>10, <1>12, <4>1
    <3>2. EndsWith(w, e, h)
      BY <1>6, <1>8, <2>2, <2>3, <2>12, <3>1
    <3> QED BY <3>2, LenProperties DEF EndsWith
  <2>14. EndOf(u, w) /\ Len(u) = IF Len(w) > h THEN h ELSE Len(w)
    BY <1>8, <2>3, <2>9, <2>10, <2>12 DEF Kept
  <2>15. Len(u) = h
    BY <2>13, <2>14
  <2>16. EndsWith(u, e, h)
    BY <2>13, <2>14, <2>15, EndEndsWith
  <2>17. u = e
    <3>1. \A i \in 1 .. h : u[i] = e[i]
      <4>1. \A i \in 1 .. h : u[h - h + i] = e[i]
        BY <2>15, <2>16 DEF EndsWith
      <4>2. \A i \in 1 .. h : h - h + i = i
        OBVIOUS
      <4> QED BY <4>1, <4>2
    <3> QED BY <2>4, <2>15, <3>1, SeqEqual
  <2>18. q.out = o
    <3>1. I!BeforeStart(u, t) = 0
      <4>1. e[1] \in I!Starts(t)
        BY <2>4, StartFacts
      <4>2. Len(u) > 0 /\ u[1] \in I!Starts(t)
        BY <2>4, <2>17, <4>1
      <4> QED BY <4>2, BeforeStartFacts
    <3>2. n = 0 /\ q.out = o \o SubSeq(u, 1, n)
      BY <2>9, <2>10, <2>11, <3>1 DEF Ended
    <3>3. SubSeq(u, 1, 0) = <<>>
      OBVIOUS
    <3> QED BY <3>2, <3>3, ConcatEmptySeq
  <2>19. ~c.twice => c.job = o \o e
    BY <1>8, <2>9, <2>10, <2>11, <2>17 DEF Kept
  <2>20. /\ ~q.on /\ ~q.only /\ q.end = "terminator" /\ q.job = c.job /\ q.twice = c.twice
         /\ q.state = m /\ q.saved = v
    BY <1>8, <2>1, <2>9 DEF Ended
  <2>21. I!Faithful(q, t)
    BY <2>4, <2>18, <2>19, <2>20 DEF I!Faithful
  <2> QED BY <1>6, <2>7, <2>20, <2>21 DEF CaptureInv
<1> QED BY <1>11, <1>12

(* A job begins. *)
LEMMA SetupKeeps ==
    ASSUME NEW t \in Terminators, NEW p, CaptureInv(p, t), NEW only \in BOOLEAN,
           NEW q, q = I!Setup(p, only)
    PROVE  /\ CaptureInv(q, t)
           /\ q.on /\ q.only = only /\ q.saved = p.saved /\ q.buf = <<>>
<1>1. p \in Captures(t) /\ Len(t) \in {4, 6} /\ <<>> \in Seq(I!Byte)
  BY TerminatorFacts DEF CaptureInv
<1>2. PICK e \in Seq(I!Byte) : e = <<>>
  BY <1>1
<1>3. PICK z \in 0 .. Len(t) : z = 0
  BY <1>1
<1>4. q = [p EXCEPT !.on = TRUE, !.only = only, !.state = z, !.buf = e, !.out = e,
                    !.job = e, !.end = "none", !.twice = FALSE]
  BY <1>2, <1>3 DEF I!Setup
<1>5. q \in Captures(t)
  BY <1>1, <1>4 DEF Captures
<1>6. q.on /\ q.only = only /\ q.state = z /\ q.saved = p.saved /\ q.end = "none"
  BY <1>1, <1>4 DEF Captures
<1>7. q.buf = e /\ q.out = e /\ q.job = e
  BY <1>1, <1>4 DEF Captures
<1>8. e \o e = e /\ Len(e) = 0
  BY <1>2
<1>9. I!Faithful(q, t)
  BY <1>6, <1>7, <1>8 DEF I!Faithful
<1>10. Seen(q, t) /\ Counts(q.state, q.saved, t)
  BY <1>3, <1>6 DEF Seen, Counts, CaptureInv
<1>11. q.state = 0 /\ q.state < Len(t)
  <2>1. Len(t) \in {4, 6}
    BY <1>1
  <2>2. \A l \in {4, 6} : 0 < l
    OBVIOUS
  <2>3. 0 < Len(t)
    BY <2>1, <2>2
  <2> QED BY <1>3, <1>6, <2>3
<1>12. CaptureInv(q, t)
  BY <1>5, <1>6, <1>9, <1>10, <1>11 DEF CaptureInv
<1> QED BY <1>2, <1>6, <1>7, <1>12

-----------------------------------------------------------------------------
(* The terminal's input. *)
InputTypes == wire \in Seq(I!Byte) /\ I!TypeOK

(* A capture that is kept from the screen leaves the parser where it began; the
   last byte of one that is shown is, after a parameter, no start of a terminator. *)
ScreenInv ==
    /\ I!ForPrinter \/ port.on => state = "TOPLEVEL"
    /\ port.on => port.only
    /\ port.saved = 0
    /\ state = "SEEN_CSI" /\ arg # 0 /\ capture.on => NoStart(capture.buf, 1)

InputInv ==
    InputTypes /\ CaptureInv(capture, I!PrintEnd) /\ CaptureInv(port, I!PortEnd) /\ ScreenInv

LEMMA InputInit ==
    ASSUME I!Init
    PROVE  InputInv
<1>1. /\ wire \in Wires /\ inbuf = <<>> /\ busy = FALSE
      /\ unget = "none" /\ utf_state = 0
      /\ state = "TOPLEVEL" /\ arg = 0
      /\ selstate = "NO_SELECTION"
  BY DEF I!Init, I!None
<1>2. InputTypes
  <2>1. wire \in Seq(I!Byte)
    BY <1>1, InstancesAssumption DEF I!TermInputAssumption
  <2>2. inbuf \in Seq(I!Byte)
    BY <1>1, EmptySeq
  <2> QED BY <1>1, <2>1, <2>2 DEF InputTypes, I!TypeOK, I!State, I!None
<1>3. ASSUME NEW t \in Terminators, NEW n \in 0 .. 2, NEW p, p = I!Idle(n)
      PROVE  CaptureInv(p, t) /\ ~p.on /\ ~p.only /\ p.saved = n
  <2>1. PICK z \in 0 .. Len(t) : z = 0
    BY TerminatorFacts
  <2>2. PICK e \in Seq(I!Byte) : e = <<>>
    BY EmptySeq
  <2>3. p = [on |-> FALSE, only |-> FALSE, state |-> z, saved |-> n,
             buf |-> e, out |-> e, job |-> e, end |-> "none", twice |-> FALSE]
    BY <1>3, <2>1, <2>2 DEF I!Idle
  <2>4. p \in Captures(t) /\ ~p.on /\ ~p.only /\ p.saved = n /\ p.end = "none" /\ p.state = 0
    BY <2>1, <2>3 DEF Captures
  <2>5. I!Faithful(p, t)
    BY <2>4 DEF I!Faithful
  <2> QED BY <2>4, <2>5 DEF CaptureInv, Counts
<1>4. PICK n \in 0 .. 2 : capture = I!Idle(n)
  BY InstancesAssumption DEF I!Init, I!TermInputAssumption
<1>5. I!PrintEnd \in Terminators /\ I!PortEnd \in Terminators /\ 0 \in 0 .. 2
  BY DEF Terminators
<1>6. CaptureInv(capture, I!PrintEnd) /\ ~capture.on
  BY <1>3, <1>4, <1>5
<1>7. port = I!Idle(0)
  BY DEF I!Init
<1>8. CaptureInv(port, I!PortEnd) /\ ~port.on /\ port.saved = 0
  BY <1>3, <1>5, <1>7
<1> QED BY <1>1, <1>2, <1>6, <1>8 DEF InputInv, ScreenInv, I!ForPrinter

(* The byte that is taken next. *)
LEMMA ByteTaken ==
    ASSUME InputTypes, I!More, I!Next1
    PROVE  /\ I!C \in I!Byte /\ I!Fresh \in BOOLEAN
           /\ inbuf' \in Seq(I!Byte)
<1>1. inbuf \in Seq(I!Byte) /\ unget \in I!Byte \union {"none"}
  BY DEF InputTypes, I!TypeOK, I!None
<1>2. CASE unget = "none"
  <2>1. inbuf # <<>>
    BY <1>2 DEF I!More, I!None
  <2>2. Head(inbuf) \in I!Byte /\ Tail(inbuf) \in Seq(I!Byte)
    BY <1>1, <2>1, HeadTailProperties
  <2> QED BY <1>2, <2>2 DEF I!C, I!Fresh, I!Next1, I!None
<1>3. CASE unget # "none"
  BY <1>1, <1>3 DEF I!C, I!Fresh, I!Next1, I!None
<1> QED BY <1>2, <1>3

(* What the printer gets of a byte that goes on to the screen or to the port. *)
LEMMA CopiedFacts ==
    ASSUME InputInv, ~I!ForPrinter, I!C \in I!Byte, I!Fresh \in BOOLEAN,
           NEW p, p = I!Copied
    PROVE  /\ CaptureInv(p, I!PrintEnd)
           /\ p.on = capture.on /\ ~p.only
           /\ p.on => p.buf = Append(capture.buf, I!C) /\ capture.buf \in Seq(I!Byte)
<1>1. PICK t \in Terminators : t = I!PrintEnd
  BY DEF Terminators
<1>2. CaptureInv(capture, t)
  BY <1>1 DEF InputInv
<1>3. CASE capture.on
  <2>1. PICK b \in I!Byte : b = I!C
    OBVIOUS
  <2>2. PICK f \in BOOLEAN : f = I!Fresh
    OBVIOUS
  <2>3. p = I!Take(capture, b, f)
    BY <1>3, <2>1, <2>2 DEF I!Copied
  <2>4. ~capture.only
    BY <1>3 DEF I!ForPrinter
  <2>5. /\ CaptureInv(p, t)
        /\ p.on /\ ~p.only /\ p.saved = capture.saved /\ p.buf = Append(capture.buf, b)
    BY <1>2, <1>3, <2>3, <2>4, CopyKeeps
  <2>6. capture.buf \in Seq(I!Byte)
    BY <1>2 DEF CaptureInv, Captures
  <2> QED BY <1>1, <1>3, <2>1, <2>5, <2>6
<1>4. CASE ~capture.on
  <2>1. p = capture
    BY <1>4 DEF I!Copied
  <2> QED BY <1>1, <1>2, <1>4, <2>1 DEF CaptureInv
<1>5. capture.on \in BOOLEAN
  BY <1>2 DEF CaptureInv, Captures
<1> QED BY <1>3, <1>4, <1>5

(* The step of term_out() that takes a byte: what it leaves alone. *)
Taken ==
    /\ InputInv /\ busy /\ I!More /\ I!Next1
    /\ UNCHANGED <<wire, busy, selstate>>

LEMMA TakenFacts ==
    ASSUME Taken
    PROVE  /\ I!C \in I!Byte /\ I!Fresh \in BOOLEAN
           /\ inbuf' \in Seq(I!Byte) /\ wire' \in Seq(I!Byte) /\ busy' = TRUE
           /\ selstate' \in {"NO_SELECTION", "DRAGGING", "SELECTED"}
           /\ utf_state \in {0, 1} /\ state \in I!State /\ arg \in Nat
<1>1. InputTypes /\ UNCHANGED <<wire, busy, selstate>>
  BY DEF Taken, InputInv
<1>2. I!C \in I!Byte /\ I!Fresh \in BOOLEAN /\ inbuf' \in Seq(I!Byte)
  BY <1>1, ByteTaken DEF Taken
<1> QED BY <1>1, <1>2 DEF Taken, InputTypes, I!TypeOK

(* What is to be shown of the types after it. *)
LEMMA TakenTypes ==
    ASSUME Taken, unget' \in I!Byte \union {"none"}, utf_state' \in {0, 1},
           state' \in I!State, arg' \in Nat
    PROVE  InputTypes'
<1>1. /\ inbuf' \in Seq(I!Byte) /\ wire' \in Seq(I!Byte) /\ busy' = TRUE
      /\ selstate' \in {"NO_SELECTION", "DRAGGING", "SELECTED"}
  BY TakenFacts
<1> QED BY <1>1 DEF InputTypes, I!TypeOK, I!None

(* A byte for the printer alone. *)
LEMMA ToPrinterKeeps ==
    ASSUME Taken, I!ToPrinter
    PROVE  InputInv'
<1>1. /\ I!C \in I!Byte /\ I!Fresh \in BOOLEAN /\ utf_state \in {0, 1}
      /\ state \in I!State /\ arg \in Nat
  BY TakenFacts
<1>2. UNCHANGED <<port, utf_state, state, arg, query, answers>> /\ unget' = "none"
  BY DEF I!ToPrinter, I!parser, I!None
<1>3. InputTypes'
  BY <1>1, <1>2, TakenTypes
<1>4. CaptureInv(capture', I!PrintEnd)
  <2>1. PICK t \in Terminators : t = I!PrintEnd
    BY DEF Terminators
  <2>2. PICK b \in I!Byte : b = I!C
    BY <1>1
  <2>3. PICK f \in BOOLEAN : f = I!Fresh
    BY <1>1
  <2>4. capture' = I!TakeOnly(capture, b, f, t)
    BY <2>1, <2>2, <2>3 DEF I!ToPrinter
  <2>5. CaptureInv(capture, t) /\ capture.on /\ capture.only
    BY <2>1 DEF Taken, InputInv, I!ToPrinter, I!ForPrinter
  <2> QED BY <2>1, <2>4, <2>5, TakeOnlyKeeps
<1>5. CaptureInv(port', I!PortEnd)
  BY <1>2 DEF Taken, InputInv
<1>6. state = "TOPLEVEL"
  BY DEF Taken, InputInv, ScreenInv, I!ToPrinter
<1>7. ScreenInv'
  BY <1>2, <1>6 DEF Taken, InputInv, ScreenInv
<1> QED BY <1>3, <1>4, <1>5, <1>7 DEF InputInv

(* A byte for the port. *)
LEMMA ToPortKeeps ==
    ASSUME Taken, I!ToPort
    PROVE  InputInv'
<1>1. /\ I!C \in I!Byte /\ I!Fresh \in BOOLEAN /\ utf_state \in {0, 1}
      /\ state \in I!State /\ arg \in Nat
  BY TakenFacts
<1>2. UNCHANGED <<utf_state, state, arg, query, answers>> /\ unget' = "none"
  BY DEF I!ToPort, I!parser, I!None
<1>3. InputTypes'
  BY <1>1, <1>2, TakenTypes
<1>4. ~I!ForPrinter /\ port.on /\ capture' = I!Copied
  BY DEF I!ToPort
<1>5. CaptureInv(capture', I!PrintEnd)
  BY <1>1, <1>4, CopiedFacts DEF Taken
<1>6. CaptureInv(port', I!PortEnd) /\ (port'.on => port'.only) /\ port'.saved = 0
  <2>1. PICK t \in Terminators : t = I!PortEnd
    BY DEF Terminators
  <2>2. PICK b \in I!Byte : b = I!C
    BY <1>1
  <2>3. PICK f \in BOOLEAN : f = I!Fresh
    BY <1>1
  <2>4. port' = I!TakeOnly(port, b, f, t)
    BY <2>1, <2>2, <2>3 DEF I!ToPort
  <2>5. CaptureInv(port, t) /\ port.only /\ port.saved = 0 /\ t # I!PrintEnd
    BY <1>4, <2>1, PrintEndsAre DEF Taken, InputInv, ScreenInv
  <2> QED BY <1>4, <2>1, <2>4, <2>5, TakeOnlyKeeps
<1>7. state = "TOPLEVEL"
  BY <1>4 DEF Taken, InputInv, ScreenInv
<1>8. ScreenInv'
  BY <1>2, <1>6, <1>7 DEF ScreenInv
<1> QED BY <1>3, <1>5, <1>6, <1>8 DEF InputInv

(* A byte that is on the screen: the port is off, and the printer has it too. *)
LEMMA OnScreenFacts ==
    ASSUME Taken, I!OnScreen, NEW p, p = I!Copied
    PROVE  /\ I!C \in I!Byte /\ ~port.on /\ CaptureInv(port, I!PortEnd) /\ port.saved = 0
           /\ CaptureInv(p, I!PrintEnd) /\ ~p.only
           /\ p.on => p.buf = Append(capture.buf, I!C) /\ capture.buf \in Seq(I!Byte)
           /\ state = "SEEN_CSI" /\ arg # 0 /\ p.on => NoStart(capture.buf, 1)
<1>1. I!C \in I!Byte /\ I!Fresh \in BOOLEAN /\ InputInv /\ ~I!ForPrinter /\ ~port.on
  BY TakenFacts DEF Taken, I!OnScreen
<1>2. /\ CaptureInv(p, I!PrintEnd) /\ p.on = capture.on /\ ~p.only
      /\ p.on => p.buf = Append(capture.buf, I!C) /\ capture.buf \in Seq(I!Byte)
  BY <1>1, CopiedFacts
<1> QED BY <1>1, <1>2 DEF InputInv, ScreenInv

(* A lead byte, or one that cannot follow it. *)
LEMMA DecodeKeeps ==
    ASSUME Taken, I!Decode
    PROVE  InputInv'
<1>1. PICK p : p = I!Copied
  OBVIOUS
<1>2. /\ I!C \in I!Byte /\ ~port.on /\ CaptureInv(port, I!PortEnd) /\ port.saved = 0
      /\ CaptureInv(p, I!PrintEnd) /\ ~p.only
  BY <1>1, OnScreenFacts DEF I!Decode
<1>3. /\ UNCHANGED <<port, state, arg, query, answers>> /\ capture' = p
      /\ utf_state' \in {0, 1} /\ unget' \in I!Byte \union {"none"}
      /\ state = "TOPLEVEL"
  BY <1>1, <1>2 DEF I!Decode, I!Lead, I!Malformed, I!Decoding, I!None, I!parser
<1>4. InputTypes'
  BY <1>3, TakenFacts, TakenTypes
<1>5. ScreenInv'
  BY <1>2, <1>3 DEF ScreenInv, I!ForPrinter
<1> QED BY <1>2, <1>3, <1>4, <1>5 DEF InputInv

(* What is to be shown of a step of the parser. *)
LEMMA ParsedTypes ==
    ASSUME Taken, I!Parse, state' \in I!State, arg' \in Nat
    PROVE  InputTypes'
<1>1. unget' = "none" /\ utf_state \in {0, 1} /\ utf_state' = IF I!Decoding THEN 0 ELSE utf_state
  BY TakenFacts DEF I!Parse, I!None
<1>2. utf_state' \in {0, 1}
  BY <1>1
<1> QED BY <1>1, <1>2, TakenTypes

(* A byte that the parser takes, with a capture that keeps its own invariant. *)
LEMMA ParsedInv ==
    ASSUME Taken, I!Parse, state' \in I!State, arg' \in Nat, UNCHANGED port,
           CaptureInv(capture', I!PrintEnd), ~capture'.only,
           state' = "SEEN_CSI" /\ arg' # 0 /\ capture'.on => NoStart(capture'.buf, 1)
    PROVE  InputInv'
<1>1. InputTypes'
  BY ParsedTypes
<1>2. ~port.on /\ port.saved = 0 /\ CaptureInv(port, I!PortEnd)
  BY DEF Taken, InputInv, ScreenInv, I!Parse, I!Decoded, I!OnScreen
<1>3. ScreenInv'
  BY <1>2 DEF ScreenInv, I!ForPrinter
<1> QED BY <1>1, <1>2, <1>3 DEF InputInv

(* A control character, which is obeyed within a sequence too. *)
LEMMA ControlKeeps ==
    ASSUME Taken, I!Parse, I!Control
    PROVE  InputInv'
<1>1. PICK p : p = I!Copied
  OBVIOUS
<1>2. /\ I!C \in I!Byte
      /\ CaptureInv(p, I!PrintEnd) /\ ~p.only
      /\ p.on => p.buf = Append(capture.buf, I!C) /\ capture.buf \in Seq(I!Byte)
      /\ state = "SEEN_CSI" /\ arg # 0 /\ p.on => NoStart(capture.buf, 1)
  BY <1>1, OnScreenFacts DEF I!Parse, I!Decoded
<1>3. capture' = p /\ UNCHANGED port /\ arg' = arg
  BY <1>1 DEF I!Control, I!Sequence, I!parser
<1>4. state \in I!State /\ arg \in Nat
  BY TakenFacts
<1>5. CASE I!C = "ESC"
  <2>1. state' = "SEEN_ESC"
    BY <1>5 DEF I!Control, I!Sequence
  <2> QED BY <1>2, <1>3, <1>4, <2>1, ParsedInv DEF I!State
<1>6. CASE I!C # "ESC"
  <2>1. state' = state
    BY <1>6 DEF I!Control, I!parser
  <2>2. p.on => NoStart(p.buf, 1)
    <3> SUFFICES ASSUME p.on PROVE NoStart(p.buf, 1)
      OBVIOUS
    <3>1. PICK c \in I!Byte : c = I!C
      BY <1>2
    <3>2. PICK s \in Seq(I!Byte) : s = capture.buf
      BY <1>2
    <3>3. p.buf = Append(s, c) /\ c \notin {"ESC", "CSI"}
      BY <1>2, <1>6, <3>1, <3>2 DEF I!Control, I!IsControl
    <3> QED BY <3>3, LastNoStart
  <2> QED BY <1>2, <1>3, <1>4, <2>1, <2>2, ParsedInv
<1> QED BY <1>5, <1>6

(* The 8-bit CSI, in a sequence or before it. *)
LEMMA C1Keeps ==
    ASSUME Taken, I!Parse, I!C1
    PROVE  InputInv'
<1>1. PICK p : p = I!Copied
  OBVIOUS
<1>2. CaptureInv(p, I!PrintEnd) /\ ~p.only
  BY <1>1, OnScreenFacts DEF I!Parse, I!Decoded
<1>3. capture' = p /\ UNCHANGED port /\ state' = "SEEN_CSI" /\ arg' = 0
  BY <1>1 DEF I!C1, I!Sequence
<1> QED BY <1>2, <1>3, ParsedInv DEF I!State

(* A character that is shown. *)
LEMMA GraphicKeeps ==
    ASSUME Taken, I!Parse, I!Graphic
    PROVE  InputInv'
<1>1. PICK p : p = I!Copied
  OBVIOUS
<1>2. CaptureInv(p, I!PrintEnd) /\ ~p.only
  BY <1>1, OnScreenFacts DEF I!Parse, I!Decoded
<1>3. capture' = p /\ UNCHANGED <<port, state, arg>> /\ state = "TOPLEVEL"
  BY <1>1 DEF I!Graphic, I!parser
<1>4. state \in I!State /\ arg \in Nat
  BY TakenFacts
<1> QED BY <1>2, <1>3, <1>4, ParsedInv

(* The bytes of an OSC string. *)
LEMMA OSCKeeps ==
    ASSUME Taken, I!Parse, I!OSC
    PROVE  InputInv'
<1>1. PICK p : p = I!Copied
  OBVIOUS
<1>2. CaptureInv(p, I!PrintEnd) /\ ~p.only
  BY <1>1, OnScreenFacts DEF I!Parse, I!Decoded
<1>3. capture' = p /\ UNCHANGED port
  BY <1>1 DEF I!OSC
<1>4. state \in I!State /\ arg \in Nat
  BY TakenFacts
<1>5. I!Digit(I!C) \in Nat
  BY DEF I!Digit
<1>6. 10 * arg + I!Digit(I!C) \in Nat
  BY <1>4, <1>5
<1>7. CASE state = "SEEN_OSC"
  <2>1. state' \in {"SEEN_OSC", "OSC_STRING"} /\ arg' \in Nat
    BY <1>4, <1>6, <1>7 DEF I!OSC, I!Sequence
  <2> QED BY <1>2, <1>3, <2>1, ParsedInv DEF I!State
<1>8. CASE state = "OSC_STRING"
  <2>1. state' \in {"OSC_MAYBE_ST", "OSC_STRING", "TOPLEVEL"} /\ arg' = arg
    BY <1>4, <1>8 DEF I!OSC, I!Sequence, I!parser
  <2> QED BY <1>2, <1>3, <1>4, <2>1, ParsedInv DEF I!State
<1>9. CASE state = "OSC_MAYBE_ST"
  <2>1. state' \in {"OSC_MAYBE_ST", "TOPLEVEL"} /\ arg' = arg
    BY <1>4, <1>9 DEF I!OSC, I!Sequence, I!parser
  <2> QED BY <1>2, <1>3, <1>4, <2>1, ParsedInv DEF I!State
<1> QED BY <1>7, <1>8, <1>9 DEF I!OSC

(* The byte after ESC: ESC c ends a job. *)
LEMMA SeenEscKeeps ==
    ASSUME Taken, I!Parse, I!SeenEsc
    PROVE  InputInv'
<1>1. PICK p : p = I!Copied
  OBVIOUS
<1>2. /\ I!C \in I!Byte /\ CaptureInv(p, I!PrintEnd) /\ ~p.only
      /\ p.on => p.buf = Append(capture.buf, I!C) /\ capture.buf \in Seq(I!Byte)
  BY <1>1, OnScreenFacts DEF I!Parse, I!Decoded
<1>3. state \in I!State /\ arg \in Nat /\ UNCHANGED port
  BY TakenFacts DEF I!SeenEsc
<1>4. /\ state' \in {"SEEN_ESC", "SEEN_CSI", "SEEN_OSC", "TOPLEVEL"} /\ arg' \in {arg, 0}
      /\ state' = "SEEN_CSI" => arg' = 0
  BY DEF I!SeenEsc, I!Sequence
<1>5. state' \in I!State /\ arg' \in Nat
  BY <1>3, <1>4 DEF I!State
<1>6. CASE I!C = "c" /\ query = "" /\ PrintMode
  <2>1. capture' = I!Finish(p, "reset", I!PrintEnd)
    BY <1>1, <1>6 DEF I!SeenEsc
  <2>2. PICK t \in Terminators : t = I!PrintEnd
    BY DEF Terminators
  <2>3. CaptureInv(capture', t) /\ ~capture'.on
    BY <1>2, <2>1, <2>2, FinishByReset
  <2>4. ~capture'.only
    BY <2>3 DEF CaptureInv
  <2> QED BY <1>3, <1>5, <2>2, <2>3, <2>4, ParsedInv
<1>7. CASE ~(I!C = "c" /\ query = "" /\ PrintMode)
  <2>1. capture' = p
    BY <1>1, <1>7 DEF I!SeenEsc
  <2> QED BY <1>2, <1>3, <1>4, <1>5, <2>1, ParsedInv
<1> QED BY <1>6, <1>7

(* A parameter of a control sequence. *)
Parameter(c) == c \in I!Digits \union {";", "?", "/"}
MediaCopy == I!C = "i" /\ query \in {"", "?"}

LEMMA ParametersKeep ==
    ASSUME Taken, I!Parse, I!SeenCSI, I!CSIParameters, Parameter(I!C)
    PROVE  InputInv'
<1>1. PICK p : p = I!Copied
  OBVIOUS
<1>2. /\ I!C \in I!Byte /\ CaptureInv(p, I!PrintEnd) /\ ~p.only
      /\ p.on => p.buf = Append(capture.buf, I!C) /\ capture.buf \in Seq(I!Byte)
  BY <1>1, OnScreenFacts DEF I!Parse, I!Decoded
<1>3. arg \in Nat /\ UNCHANGED port /\ capture' = p /\ state' = "SEEN_CSI"
  BY <1>1, TakenFacts DEF I!CSIParameters, I!Sequence
<1>4. arg' \in Nat
  <2>1. PICK d \in Nat : d = I!Digit(I!C)
    BY DEF I!Digit
  <2>2. PICK a \in Nat : a = arg
    BY <1>3
  <2>3. 10 * a + d \in Nat
    OBVIOUS
  <2> QED BY <1>3, <2>1, <2>2, <2>3 DEF I!CSIParameters, I!Sequence
<1>5. p.on => NoStart(p.buf, 1)
  <2> SUFFICES ASSUME p.on PROVE NoStart(p.buf, 1)
    OBVIOUS
  <2>1. PICK c \in I!Byte : c = I!C
    BY <1>2
  <2>2. PICK s \in Seq(I!Byte) : s = capture.buf
    BY <1>2
  <2>3. p.buf = Append(s, c) /\ c \notin {"ESC", "CSI"}
    BY <1>2, <2>1, <2>2 DEF Parameter, I!Digits
  <2> QED BY <2>3, LastNoStart
<1> QED BY <1>2, <1>3, <1>4, <1>5, ParsedInv DEF I!State

(* The end of a control sequence: it may start a job, or end the one that is shown. *)
LEMMA FinalKeeps ==
    ASSUME Taken, I!Parse, I!SeenCSI, I!CSIFinal
    PROVE  InputInv'
<1>1. PICK p : p = I!Copied
  OBVIOUS
<1>2. /\ I!C \in I!Byte /\ CaptureInv(p, I!PrintEnd) /\ ~p.only
      /\ ~port.on /\ port.saved = 0 /\ CaptureInv(port, I!PortEnd)
      /\ p.on => p.buf = Append(capture.buf, I!C) /\ capture.buf \in Seq(I!Byte)
      /\ arg # 0 /\ p.on => NoStart(capture.buf, 1)
  BY <1>1, OnScreenFacts DEF I!Parse, I!Decoded, I!SeenCSI
<1>3. state' = "TOPLEVEL" /\ arg' = arg /\ arg \in Nat
  BY TakenFacts DEF I!CSIFinal, I!Sequence
<1>4. InputTypes'
  BY <1>3, ParsedTypes DEF I!State
<1>5. PICK t \in Terminators : t = I!PrintEnd
  BY DEF Terminators
<1>6. PICK u \in Terminators : u = I!PortEnd
  BY DEF Terminators
<1>7. CaptureInv(capture', I!PrintEnd)
  <2>1. CASE MediaCopy /\ arg = 5
    <3>1. PICK o \in BOOLEAN : o = (query = "")
      OBVIOUS
    <3>2. capture' = I!Setup(p, o)
      BY <1>1, <2>1, <3>1 DEF I!CSIFinal, MediaCopy
    <3>3. CaptureInv(capture', t)
      BY <1>2, <1>5, <3>2, SetupKeeps
    <3> QED BY <1>5, <3>3
  <2>2. CASE MediaCopy /\ arg = 4
    <3>1. capture' = I!Finish(p, "sequence", I!PrintEnd)
      <4>1. arg # 5
        BY <1>3, <2>2
      <4> QED BY <1>1, <2>2, <4>1 DEF I!CSIFinal, MediaCopy
    <3>2. p.on => NoStart(p.buf, 2)
      <4> SUFFICES ASSUME p.on PROVE NoStart(p.buf, 2)
        OBVIOUS
      <4>1. PICK c \in I!Byte : c = I!C
        BY <1>2
      <4>2. PICK s \in Seq(I!Byte) : s = capture.buf
        BY <1>2
      <4>3. NoStart(s, 1) /\ p.buf = Append(s, c) /\ c \notin {"ESC", "CSI"}
        <5>1. arg # 0
          BY <1>3, <2>2
        <5>2. I!C \notin {"ESC", "CSI"}
          BY <2>2 DEF MediaCopy
        <5> QED BY <1>2, <4>1, <4>2, <5>1, <5>2
      <4>4. NoStart(p.buf, 1 + 1)
        BY <4>3, MoreNoStart
      <4> QED BY <4>4
    <3>3. CaptureInv(p, t) /\ (p.on => ~p.only /\ NoStart(p.buf, 2))
      BY <1>2, <1>5, <3>2
    <3>4. CaptureInv(capture', t)
      BY <1>5, <3>1, <3>3, FinishBySequence
    <3> QED BY <1>5, <3>4
  <2>3. CASE ~(MediaCopy /\ arg \in {4, 5})
    <3>1. capture' = p
      BY <1>1, <2>3 DEF I!CSIFinal, MediaCopy
    <3> QED BY <1>2, <3>1
  <2> QED BY <2>1, <2>2, <2>3
<1>8. CaptureInv(port', I!PortEnd) /\ port'.saved = 0 /\ (port'.on => port'.only)
  <2>1. CASE I!C = "h" /\ query = "/" /\ arg = 51
    <3>1. PICK o \in BOOLEAN : o = TRUE
      OBVIOUS
    <3>2. port' = I!Setup(port, o)
      BY <2>1, <3>1 DEF I!CSIFinal
    <3>3. CaptureInv(port', u) /\ port'.only = o /\ port'.saved = port.saved
      BY <1>2, <1>6, <3>2, SetupKeeps
    <3> QED BY <1>2, <1>6, <3>1, <3>3
  <2>2. CASE ~(I!C = "h" /\ query = "/" /\ arg = 51)
    <3>1. port' = port
      BY <1>2, <2>2 DEF I!CSIFinal, I!Finish, I!Flush
    <3> QED BY <1>2, <3>1
  <2> QED BY <2>1, <2>2
<1>9. ScreenInv'
  BY <1>3, <1>8 DEF ScreenInv
<1> QED BY <1>4, <1>7, <1>8, <1>9 DEF InputInv

(* The steps of term_out() and of the message loop. *)
LEMMA TakeByteKeeps ==
    ASSUME InputInv, I!TakeByte
    PROVE  InputInv'
<1>1. Taken
  BY DEF I!TakeByte, Taken
<1>2. CASE I!Parse
  <2>1. CASE I!SeenCSI
    BY <1>1, <1>2, <2>1, ParametersKeep, FinalKeeps DEF I!SeenCSI, Parameter
  <2> QED BY <1>1, <1>2, <2>1, ControlKeeps, C1Keeps, GraphicKeeps, SeenEscKeeps, OSCKeeps DEF I!Parse
<1> QED BY <1>1, <1>2, ToPrinterKeeps, ToPortKeeps, DecodeKeeps DEF I!TakeByte

(* term_out() ends. *)
LEMMA TermOutEndsKeeps ==
    ASSUME InputInv, I!TermOutEnds
    PROVE  InputInv'
<1>1. /\ UNCHANGED <<wire, inbuf, unget, utf_state, state, arg, query, selstate, answers>>
      /\ busy' = FALSE /\ unget = "none"
  BY DEF I!TermOutEnds, I!parser, I!More, I!None
<1>2. InputTypes'
  BY <1>1 DEF InputInv, InputTypes, I!TypeOK, I!None
<1>3. PICK t \in Terminators : t = I!PrintEnd
  BY DEF Terminators
<1>4. PICK u \in Terminators : u = I!PortEnd
  BY DEF Terminators
<1>5. CaptureInv(capture, t) /\ capture' = I!Flush(capture)
  BY <1>3 DEF InputInv, I!TermOutEnds
<1>6. /\ CaptureInv(capture', t)
      /\ capture'.on => capture.on /\ capture'.only = capture.only
      /\ \A n \in Nat : capture'.on /\ NoStart(capture.buf, n) => NoStart(capture'.buf, n)
  BY <1>5, FlushKeeps
<1>7. CaptureInv(port, u) /\ port' = I!Flush(port)
  BY <1>4 DEF InputInv, I!TermOutEnds
<1>8. /\ CaptureInv(port', u)
      /\ (port'.on => port.on /\ port'.only = port.only) /\ port'.saved = port.saved
  BY <1>7, FlushKeeps
<1>9. state = "SEEN_CSI" /\ arg # 0 /\ capture'.on => NoStart(capture'.buf, 1)
  BY <1>6 DEF InputInv, ScreenInv
<1>10. ScreenInv'
  BY <1>1, <1>6, <1>8, <1>9 DEF InputInv, ScreenInv, I!ForPrinter
<1> QED BY <1>2, <1>3, <1>4, <1>6, <1>8, <1>10 DEF InputInv

(* The host sends. *)
LEMMA DeliverKeeps ==
    ASSUME InputInv, I!Deliver
    PROVE  InputInv'
<1>1. PICK n \in 1 .. Len(wire) : I!term_data(n)
  BY DEF I!Deliver
<1>2. /\ inbuf' = inbuf \o SubSeq(wire, 1, n)
      /\ wire' = SubSeq(wire, n + 1, Len(wire))
      /\ busy' \in BOOLEAN /\ ~busy
      /\ UNCHANGED <<unget, utf_state, state, arg, query, selstate, capture, port, answers>>
  BY <1>1 DEF I!term_data, I!parser
<1>3. wire \in Seq(I!Byte) /\ inbuf \in Seq(I!Byte) /\ unget = "none"
  BY <1>2 DEF InputInv, InputTypes, I!TypeOK, I!None
<1>4. n \in 0 .. Len(wire)
  BY <1>3, LenProperties
<1>5. PICK a \in Seq(I!Byte) : a = SubSeq(wire, 1, n)
  BY <1>3, <1>4, CutSeq
<1>6. wire' \in Seq(I!Byte)
  BY <1>2, <1>3, <1>4, CutSeq
<1>7. inbuf' \in Seq(I!Byte)
  BY <1>2, <1>3, <1>5, ConcatProperties
<1>8. InputTypes'
  BY <1>2, <1>3, <1>6, <1>7 DEF InputInv, InputTypes, I!TypeOK, I!None
<1>9. ScreenInv'
  BY <1>2 DEF InputInv, ScreenInv, I!ForPrinter
<1> QED BY <1>2, <1>8, <1>9 DEF InputInv

(* The user drags. *)
LEMMA MouseKeeps ==
    ASSUME InputInv, I!MouseDown \/ I!MouseUp
    PROVE  InputInv'
<1>1. /\ UNCHANGED <<wire, inbuf, busy, unget, utf_state, state, arg, query, capture, port, answers>>
      /\ selstate' \in {"NO_SELECTION", "DRAGGING", "SELECTED"}
  BY DEF I!MouseDown, I!MouseUp, I!input, I!parser
<1> QED BY <1>1 DEF InputInv, InputTypes, I!TypeOK, ScreenInv, I!ForPrinter

(* The terminal is reset. *)
LEMMA ResetKeeps ==
    ASSUME InputInv, I!Reset
    PROVE  InputInv'
<1>1. /\ UNCHANGED <<wire, inbuf, busy, unget, state, arg, query, port, answers>>
      /\ utf_state' = 0 /\ selstate' = "NO_SELECTION"
      /\ capture' = IF PrintMode THEN I!Finish(capture, "reset", I!PrintEnd) ELSE capture
  BY DEF I!Reset, I!input, I!parser
<1>2. InputTypes'
  BY <1>1 DEF InputInv, InputTypes, I!TypeOK
<1>3. CASE PrintMode
  <2>1. PICK t \in Terminators : t = I!PrintEnd
    BY DEF Terminators
  <2>2. CaptureInv(capture, t) /\ capture' = I!Finish(capture, "reset", I!PrintEnd)
    BY <1>1, <1>3, <2>1 DEF InputInv
  <2>3. CaptureInv(capture', t) /\ ~capture'.on
    BY <2>1, <2>2, FinishByReset
  <2> QED BY <1>1, <1>2, <2>1, <2>3 DEF InputInv, ScreenInv, I!ForPrinter
<1>4. CASE ~PrintMode
  BY <1>1, <1>2, <1>4 DEF InputInv, ScreenInv, I!ForPrinter
<1> QED BY <1>3, <1>4

(* JobsKept of every behaviour: a print job, and what the port takes, is what the
   host sent between the sequences that start and end it, in whatever pieces. *)
THEOREM JobsAreKept == HostSpec => []JobsKept
<1> DEFINE Inv == part = "input" => InputInv
<1>1. HostInit => Inv
  BY InputInit DEF HostInit
<1>2. Inv /\ [HostNext]_allVars => Inv'
  <2> SUFFICES ASSUME Inv, [HostNext]_allVars, part' = "input"
               PROVE  InputInv'
    OBVIOUS
  <2>1. CASE InputStep
    BY <2>1, TakeByteKeeps, TermOutEndsKeeps, DeliverKeeps, MouseKeeps, ResetKeeps
       DEF InputStep, I!Next, I!TermOut
  <2>2. CASE TelnetStep \/ BackendStep \/ PrintingStep
    BY <2>2 DEF TelnetStep, BackendStep, PrintingStep
  <2>3. CASE UNCHANGED allVars
    <3>1. UNCHANGED <<part, inputVars>>
      BY <2>3 DEF allVars
    <3>2. part = "input" /\ InputInv
      BY <3>1
    <3> QED BY <3>1, <3>2 DEF inputVars, InputInv, InputTypes, I!TypeOK, ScreenInv, I!ForPrinter
  <2> QED BY <2>1, <2>2, <2>3 DEF HostNext
<1>3. Inv => JobsKept
  BY DEF JobsKept, InputInv, InputTypes, CaptureInv, I!JobsKept
<1> QED BY <1>1, <1>2, <1>3, PTL DEF HostSpec

(*****************************************************************************)
(* FlattenSeq of the community modules: sequences joined in order.           *)
(*****************************************************************************)

(* f[i] is the first i of s in one. *)
Joined(f, s, m) == f = [i \in 1 .. m |-> IF i = 1 THEN s[i] ELSE f[i - 1] \o s[i]]

(* There is such a function: by the least m that has none. *)
LEMMA JoinedExists ==
    ASSUME NEW s, NEW m \in Nat
    PROVE  \E f : Joined(f, s, m)
<1> DEFINE D == {k \in Nat : ~ \E f : Joined(f, s, k)}
<1>1. SUFFICES ASSUME D # {} PROVE FALSE
  OBVIOUS
<1>2. PICK k \in D : \A j \in D : k <= j
  BY <1>1, LeastOf
<1>3. k # 0
  <2> DEFINE f == [i \in 1 .. 0 |-> IF i = 1 THEN s[i] ELSE <<>>]
             h == [i \in 1 .. 0 |-> IF i = 1 THEN s[i] ELSE f[i - 1] \o s[i]]
  <2>1. DOMAIN f = 1 .. 0 /\ DOMAIN h = 1 .. 0 /\ \A i \in 1 .. 0 : f[i] = h[i]
    OBVIOUS
  <2>2. f = h
    <3>1. f = [i \in 1 .. 0 |-> f[i]] /\ h = [i \in 1 .. 0 |-> h[i]]
      OBVIOUS
    <3> HIDE DEF f, h
    <3> QED BY <2>1, <3>1
  <2>3. Joined(f, s, 0)
    BY <2>2 DEF Joined
  <2> QED BY <2>3
<1>4. k \in Nat /\ k - 1 \in Nat /\ k - 1 \notin D
  BY <1>2, <1>3
<1>5. PICK g : Joined(g, s, k - 1)
  BY <1>4
<1> DEFINE f == [i \in 1 .. k |-> IF i = k THEN (IF k = 1 THEN s[k] ELSE g[k - 1] \o s[k]) ELSE g[i]]
           h == [i \in 1 .. k |-> IF i = 1 THEN s[i] ELSE f[i - 1] \o s[i]]
<1>6. ASSUME NEW i \in 1 .. k
      PROVE  f[i] = IF i = 1 THEN s[i] ELSE f[i - 1] \o s[i]
  <2>1. CASE i = k
    <3>1. f[i] = IF k = 1 THEN s[k] ELSE g[k - 1] \o s[k]
      BY <2>1
    <3>2. k # 1 => f[k - 1] = g[k - 1]
      BY <1>4
    <3> QED BY <2>1, <3>1, <3>2
  <2>2. CASE i # k
    <3>1. i \in 1 .. k - 1 /\ f[i] = g[i]
      BY <1>4, <2>2
    <3>2. i # 1 => i - 1 \in 1 .. k /\ i - 1 # k /\ f[i - 1] = g[i - 1]
      BY <1>4, <2>2
    <3>3. g[i] = IF i = 1 THEN s[i] ELSE g[i - 1] \o s[i]
      BY <1>5, <3>1 DEF Joined
    <3> QED BY <3>1, <3>2, <3>3
  <2> QED BY <2>1, <2>2
<1>7. DOMAIN f = 1 .. k /\ DOMAIN h = 1 .. k /\ \A i \in 1 .. k : f[i] = h[i]
  BY <1>6
<1>8. f = h
  <2>1. f = [i \in 1 .. k |-> f[i]] /\ h = [i \in 1 .. k |-> h[i]]
    OBVIOUS
  <2> HIDE DEF f, h
  <2> QED BY <1>7, <2>1
<1>9. Joined(f, s, k)
  BY <1>8 DEF Joined
<1> QED BY <1>2, <1>9

(* Its values are sequences. *)
LEMMA JoinedTypes ==
    ASSUME NEW S, NEW s \in Seq(Seq(S)), NEW f, Joined(f, s, Len(s))
    PROVE  \A i \in 1 .. Len(s) : f[i] \in Seq(S)
<1> DEFINE D == {i \in Nat : i \in 1 .. Len(s) /\ f[i] \notin Seq(S)}
<1>1. SUFFICES ASSUME D # {} PROVE FALSE
  BY LenProperties
<1>2. PICK k \in D : \A j \in D : k <= j
  BY <1>1, LeastOf
<1>3. k \in Nat /\ k \in 1 .. Len(s) /\ f[k] \notin Seq(S) /\ s[k] \in Seq(S) /\ Len(s) \in Nat
  BY <1>2, LenProperties, ElementOfSeq
<1>4. f[k] = IF k = 1 THEN s[k] ELSE f[k - 1] \o s[k]
  BY <1>3 DEF Joined
<1>5. k # 1 => k - 1 \in 1 .. Len(s) /\ k - 1 \notin D /\ f[k - 1] \in Seq(S)
  BY <1>2, <1>3
<1> QED BY <1>3, <1>4, <1>5, ConcatProperties

(* It says the same of two sequences as far as they are the same. *)
Agree(s, t, n) == \A i \in 1 .. n : s[i] = t[i]

LEMMA JoinedSame ==
    ASSUME NEW s, NEW t, NEW n \in Nat, NEW m \in Nat, NEW f, NEW g,
           Joined(f, s, n), Joined(g, t, m), n <= m, Agree(s, t, n)
    PROVE  Agree(f, g, n)
<1> DEFINE D == {i \in Nat : i \in 1 .. n /\ f[i] # g[i]}
<1>1. SUFFICES ASSUME D # {} PROVE FALSE
  BY DEF Agree
<1>2. PICK k \in D : \A j \in D : k <= j
  BY <1>1, LeastOf
<1>3. k \in 1 .. n /\ k \in 1 .. m /\ f[k] # g[k] /\ s[k] = t[k]
  BY <1>2 DEF Agree
<1>4. f[k] = IF k = 1 THEN s[k] ELSE f[k - 1] \o s[k]
  BY <1>3 DEF Joined
<1>5. g[k] = IF k = 1 THEN t[k] ELSE g[k - 1] \o t[k]
  BY <1>3 DEF Joined
<1>6. k # 1 => k - 1 \in 1 .. n /\ k - 1 \notin D /\ f[k - 1] = g[k - 1]
  BY <1>2, <1>3
<1> QED BY <1>3, <1>4, <1>5, <1>6

(* FlattenSeq is its last value. *)
LEMMA FlatIs ==
    ASSUME NEW s, NEW m \in Nat \ {0}, m = Len(s)
    PROVE  \E f : Joined(f, s, m) /\ P!FlattenSeq(s) = f[m]
<1> DEFINE Q(f) == f = [i \in 1 .. Len(s) |-> IF i = 1 THEN s[i] ELSE f[i - 1] \o s[i]]
           f == CHOOSE g : Q(g)
<1>1. PICK g : Joined(g, s, m)
  BY JoinedExists
<1>2. Q(f)
  BY <1>1 DEF Joined
<1>3. P!FlattenSeq(s) = f[Len(s)]
  BY DEF P!FlattenSeq
<1> HIDE DEF f
<1> QED BY <1>2, <1>3 DEF Joined

(* Joining sequences end to end: none, one more, one, and two lists of them. *)
LEMMA FlatEmpty == P!FlattenSeq(<<>>) = <<>>
<1>1. Len(<<>>) = 0
  BY EmptySeq
<1> QED BY <1>1 DEF P!FlattenSeq

(* One more: what FlattenSeq is, in the form that the proofs use. *)
LEMMA FlatType ==
    ASSUME NEW S, NEW s \in Seq(Seq(S))
    PROVE  P!FlattenSeq(s) \in Seq(S)
<1>1. CASE s = <<>>
  BY <1>1, FlatEmpty, EmptySeq
<1>2. CASE s # <<>>
  <2>1. PICK m \in Nat \ {0} : m = Len(s)
    BY <1>2, EmptySeq
  <2>2. PICK f : Joined(f, s, m) /\ P!FlattenSeq(s) = f[m]
    BY <2>1, FlatIs
  <2>3. m \in 1 .. Len(s)
    BY <2>1
  <2> QED BY <2>1, <2>2, <2>3, JoinedTypes
<1> QED BY <1>1, <1>2

LEMMA FlatMore ==
    ASSUME NEW S, NEW s \in Seq(Seq(S)), NEW x \in Seq(S)
    PROVE  P!FlattenSeq(Append(s, x)) = P!FlattenSeq(s) \o x
<1>1. PICK t \in Seq(Seq(S)) : t = Append(s, x)
  BY AppendProperties
<1>2. PICK m \in Nat : m = Len(s)
  BY LenProperties
<1>3. PICK k \in Nat \ {0} : k = m + 1
  BY <1>2
<1>4. Len(t) = k /\ t[k] = x /\ \A i \in 1 .. m : s[i] = t[i]
  BY <1>1, <1>2, <1>3, AppendProperties
<1>5. PICK g : Joined(g, t, k) /\ P!FlattenSeq(t) = g[k]
  BY <1>4, FlatIs
<1>6. g[k] = IF k = 1 THEN x ELSE g[k - 1] \o x
  <2>1. k \in 1 .. k
    BY <1>3
  <2> QED BY <1>4, <1>5, <2>1 DEF Joined
<1>7. CASE m = 0
  <2>1. s = <<>>
    BY <1>2, <1>7, EmptySeq
  <2>2. P!FlattenSeq(s) \o x = x
    BY <2>1, FlatEmpty, ConcatEmptySeq
  <2> QED BY <1>1, <1>3, <1>5, <1>6, <1>7, <2>2
<1>8. CASE m # 0
  <2>1. m \in Nat \ {0}
    BY <1>8
  <2>2. PICK f : Joined(f, s, m) /\ P!FlattenSeq(s) = f[m]
    BY <1>2, <2>1, FlatIs
  <2>3. m <= k /\ m \in 1 .. m /\ k # 1 /\ k - 1 = m
    BY <1>3, <2>1
  <2>4. Agree(f, g, m)
    <3>1. Agree(s, t, m)
      BY <1>4 DEF Agree
    <3> QED BY <1>5, <2>2, <2>3, <3>1, JoinedSame
  <2>5. f[m] = g[m]
    BY <2>3, <2>4 DEF Agree
  <2> QED BY <1>1, <1>5, <1>6, <2>2, <2>3, <2>5
<1> QED BY <1>7, <1>8

LEMMA FlatOne ==
    ASSUME NEW S, NEW x \in Seq(S)
    PROVE  P!FlattenSeq(<<x>>) = x
<1>1. PICK e \in Seq(Seq(S)) : e = <<>>
  BY EmptySeq
<1>2. Append(e, x) = <<x>>
  BY <1>1
<1>3. P!FlattenSeq(Append(e, x)) = P!FlattenSeq(e) \o x
  BY FlatMore
<1>4. P!FlattenSeq(e) \o x = x
  BY <1>1, FlatEmpty, ConcatEmptySeq
<1> QED BY <1>2, <1>3, <1>4

(* Two sequences of sequences, one after the other: by the least number of
   elements of the second for which it fails. *)
Splits(s, u) == P!FlattenSeq(s \o u) = P!FlattenSeq(s) \o P!FlattenSeq(u)

LEMMA SplitsMore ==
    ASSUME NEW S, NEW s \in Seq(Seq(S)), NEW u \in Seq(Seq(S)), NEW x \in Seq(S), Splits(s, u)
    PROVE  Splits(s, Append(u, x))
<1>1. PICK a \in Seq(S) : a = P!FlattenSeq(s)
  BY FlatType
<1>2. PICK b \in Seq(S) : b = P!FlattenSeq(u)
  BY FlatType
<1>3. PICK v \in Seq(Seq(S)) : v = s \o u
  BY ConcatProperties
<1>4. s \o Append(u, x) = Append(v, x)
  BY <1>3, MoreSeq
<1>5. P!FlattenSeq(Append(v, x)) = (a \o b) \o x
  <2>1. P!FlattenSeq(Append(v, x)) = P!FlattenSeq(v) \o x
    BY FlatMore
  <2>2. P!FlattenSeq(v) = a \o b
    BY <1>1, <1>2, <1>3 DEF Splits
  <2> QED BY <2>1, <2>2
<1>6. P!FlattenSeq(Append(u, x)) = b \o x
  BY <1>2, FlatMore
<1>7. (a \o b) \o x = a \o (b \o x)
  BY ConcatAssociative, SMTT(60)
<1> QED BY <1>1, <1>4, <1>5, <1>6, <1>7 DEF Splits

LEMMA FlatConcat ==
    ASSUME NEW S, NEW s \in Seq(Seq(S)), NEW t \in Seq(Seq(S))
    PROVE  P!FlattenSeq(s \o t) = P!FlattenSeq(s) \o P!FlattenSeq(t)
<1>0. PICK m \in Nat : m = Len(t)
  BY LenProperties
<1>1. Splits(s, SubSeq(t, 1, m)) <=> Splits(s, t)
  BY <1>0, SubSeqFull
<1> DEFINE D == {n \in Nat : n <= m /\ ~Splits(s, SubSeq(t, 1, n))}
<1>2. SUFFICES ASSUME D # {} PROVE FALSE
  <2>1. ASSUME ~Splits(s, SubSeq(t, 1, m)) PROVE m \in D
    BY <2>1
  <2> QED BY <1>1, <2>1 DEF Splits
<1>3. PICK n \in D : \A j \in D : n <= j
  BY <1>2, LeastOf
<1>4. n \in Nat /\ n <= m /\ ~Splits(s, SubSeq(t, 1, n))
  BY <1>3
<1>5. n # 0
  <2>1. SUFFICES ASSUME n = 0 PROVE FALSE
    OBVIOUS
  <2>2. SubSeq(t, 1, n) = <<>>
    BY <2>1, SubSeqEmpty
  <2>3. PICK a \in Seq(S) : a = P!FlattenSeq(s)
    BY FlatType
  <2>4. s \o <<>> = s
    BY ConcatEmptySeq
  <2>5. a \o <<>> = a
    BY ConcatEmptySeq
  <2> QED BY <1>4, <2>2, <2>3, <2>4, <2>5, FlatEmpty DEF Splits
<1>6. Splits(s, SubSeq(t, 1, n - 1))
  BY <1>3, <1>4, <1>5
<1> HIDE DEF D
<1>7. n \in 1 .. Len(t) /\ n - 1 \in 0 .. Len(t) /\ 1 \in 1 .. Len(t)
  BY <1>0, <1>4, <1>5
<1>8. PICK u \in Seq(Seq(S)) : u = SubSeq(t, 1, n - 1)
  BY <1>7, CutSeq
<1>9. PICK x \in Seq(S) : x = t[n]
  BY <1>7, ElementOfSeq
<1>10. SubSeq(t, 1, n) = u \o <<x>>
  BY <1>7, <1>8, <1>9, SubSeqRecursiveSecond
<1>11. Append(u, x) = u \o <<x>>
  BY AppendIsConcat
<1> QED BY <1>4, <1>6, <1>8, <1>10, <1>11, SplitsMore

(*****************************************************************************)
(* The bufchain: its bytes are those of its blocks, joined.                  *)
(*****************************************************************************)
Blocks == {b \in [buf : Seq(Nat), bufpos : Nat] : b.bufpos <= Len(b.buf) /\ Len(b.buf) <= Granule}
Lefts(ch) == [i \in DOMAIN ch |-> P!Left(ch[i])]
Drop(s, n) == SubSeq(s, n + 1, Len(s))

LEMMA GranuleIs == Granule \in Nat \ {0}
BY InstancesAssumption DEF P!PrintingAssumption

(* What Drop leaves. *)
LEMMA DropType ==
    ASSUME NEW S, NEW s \in Seq(S), NEW n \in Nat
    PROVE  Drop(s, n) \in Seq(S)
<1>1. PICK m \in Nat : m = Len(s)
  BY LenProperties
<1>2. n + 1 \in Int /\ \A i \in n + 1 .. m : s[i] \in S
  BY <1>1, ElementOfSeq
<1> QED BY <1>1, <1>2, SubSeqProperties DEF Drop

LEMMA DropNone ==
    ASSUME NEW S, NEW s \in Seq(S)
    PROVE  Drop(s, 0) = s /\ \A n \in Nat : n >= Len(s) => Drop(s, n) = <<>>
<1>1. PICK m \in Nat : m = Len(s)
  BY LenProperties
<1>2. SubSeq(s, 1, m) = s
  BY <1>1, SubSeqFull
<1>3. ASSUME NEW n \in Nat, n >= m PROVE SubSeq(s, n + 1, m) = <<>>
  BY <1>3, SubSeqEmpty
<1> QED BY <1>1, <1>2, <1>3 DEF Drop

(* What is dropped from two sequences, one after the other. *)
LEMMA DropBehind ==
    ASSUME NEW S, NEW s \in Seq(S), NEW t \in Seq(S), NEW n \in Nat, n >= Len(s)
    PROVE  Drop(s \o t, n) = Drop(t, n - Len(s))
<1>1. PICK k \in Nat : k = Len(s)
  BY LenProperties
<1>2. PICK d \in Nat : d = n - k
  BY <1>1
<1>3. PICK m \in Nat : m = Len(t)
  BY LenProperties
<1>4. PICK u \in Seq(S) : u = s \o t
  BY ConcatProperties
<1>5. Len(u) = k + m /\ \A i \in 1 .. k + m : u[i] = IF i <= k THEN s[i] ELSE t[i - k]
  BY <1>1, <1>3, <1>4, ConcatProperties
<1>6. PICK v \in Seq(S) : v = Drop(u, n)
  BY DropType
<1>7. PICK w \in Seq(S) : w = Drop(t, d)
  BY DropType
<1>8. /\ Len(v) = IF n + 1 <= k + m THEN k + m - (n + 1) + 1 ELSE 0
      /\ \A i \in 1 .. k + m - (n + 1) + 1 : v[i] = u[n + 1 + i - 1]
  <2>1. n + 1 \in Int /\ k + m \in Int /\ \A i \in n + 1 .. k + m : u[i] \in S
    BY <1>4, <1>5, ElementOfSeq
  <2> QED BY <1>5, <1>6, <2>1, SubSeqProperties DEF Drop
<1>9. /\ Len(w) = IF d + 1 <= m THEN m - (d + 1) + 1 ELSE 0
      /\ \A i \in 1 .. m - (d + 1) + 1 : w[i] = t[d + 1 + i - 1]
  <2>1. d + 1 \in Int /\ \A i \in d + 1 .. m : t[i] \in S
    BY <1>3, ElementOfSeq
  <2> QED BY <1>3, <1>7, <2>1, SubSeqProperties DEF Drop
<1>10. Len(v) = Len(w)
  BY <1>1, <1>2, <1>8, <1>9
<1>11. ASSUME NEW i \in 1 .. Len(v) PROVE v[i] = w[i]
  <2>1. i \in 1 .. m - d /\ v[i] = u[n + i] /\ w[i] = t[d + i]
    BY <1>2, <1>8, <1>9
  <2>2. PICK j \in 1 .. k + m : j = n + i /\ ~(j <= k) /\ j - k = d + i
    <3>1. i \in Nat /\ 1 <= i /\ i <= m - d /\ n = k + d
      BY <1>2, <2>1
    <3>2. n + i \in 1 .. k + m /\ ~(n + i <= k) /\ n + i - k = d + i
      BY <3>1
    <3> QED BY <3>2
  <2>3. u[j] = t[j - k]
    BY <1>5, <2>2
  <2> QED BY <2>1, <2>2, <2>3
<1>12. v = w
  BY <1>10, <1>11, SeqEqual
<1> QED BY <1>1, <1>2, <1>4, <1>6, <1>7, <1>12

(* As long as it lasts, what is dropped is of the first part. *)
LEMMA DropFirst ==
    ASSUME NEW S, NEW s \in Seq(S), NEW t \in Seq(S), NEW n \in 0 .. Len(s)
    PROVE  Drop(s \o t, n) = Drop(s, n) \o t
<1>1. PICK a \in Seq(S) : a = SubSeq(s, 1, n)
  BY CutSeq
<1>2. PICK b \in Seq(S) : b = Drop(s, n)
  BY CutSeq DEF Drop
<1>3. a \o b = s /\ Len(a) = n
  BY <1>1, <1>2, CutSeq DEF Drop
<1>4. PICK c \in Seq(S) : c = b \o t
  BY ConcatProperties
<1>5. s \o t = a \o c
  <2>1. (a \o b) \o t = a \o (b \o t)
    BY ConcatAssociative, SMTT(60)
  <2> QED BY <1>3, <1>4, <2>1
<1>6. Drop(a \o c, n) = c
  <2>1. n \in Nat /\ n >= Len(a) /\ n - Len(a) = 0
    BY <1>3, LenProperties
  <2>2. Drop(a \o c, n) = Drop(c, n - Len(a))
    BY <2>1, DropBehind
  <2> QED BY <2>1, <2>2, DropNone
<1> QED BY <1>2, <1>3, <1>4, <1>5, <1>6

(* The bytes of a block. *)
LEMMA LeftFacts ==
    ASSUME NEW b \in Blocks
    PROVE  /\ P!Left(b) \in Seq(Nat) /\ P!Left(b) = Drop(b.buf, b.bufpos)
           /\ Len(P!Left(b)) = Len(b.buf) - b.bufpos
           /\ b.bufpos \in 0 .. Len(b.buf) /\ b.buf \in Seq(Nat)
<1>1. PICK t \in Seq(Nat) : t = b.buf
  BY DEF Blocks
<1>2. PICK n \in Nat : n = b.bufpos
  BY DEF Blocks
<1>3. n \in 0 .. Len(t)
  BY <1>1, <1>2, LenProperties DEF Blocks
<1>4. SubSeq(t, n + 1, Len(t)) \in Seq(Nat) /\ Len(SubSeq(t, n + 1, Len(t))) = Len(t) - n
  BY <1>3, CutSeq
<1> QED BY <1>1, <1>2, <1>3, <1>4 DEF P!Left, Drop

(* The data of a chain is what is left in each of its blocks. *)
LEMMA LeftsFacts ==
    ASSUME NEW ch \in Seq(Blocks)
    PROVE  /\ Lefts(ch) \in Seq(Seq(Nat)) /\ Len(Lefts(ch)) = Len(ch)
           /\ \A i \in 1 .. Len(ch) : Lefts(ch)[i] = P!Left(ch[i])
<1>1. PICK m \in Nat : m = Len(ch)
  BY LenProperties
<1>2. DOMAIN ch = 1 .. m
  BY <1>1, LenProperties
<1>3. \A i \in 1 .. m : P!Left(ch[i]) \in Seq(Nat)
  BY <1>1, ElementOfSeq, LeftFacts
<1>4. Lefts(ch) \in [1 .. m -> Seq(Nat)]
  BY <1>2, <1>3 DEF Lefts
<1>5. Lefts(ch) \in Seq(Seq(Nat)) /\ Len(Lefts(ch)) = m
  BY <1>4
<1> QED BY <1>1, <1>2, <1>5 DEF Lefts

(* Its data is a sequence of numbers, and that of two chains is theirs end to end. *)
LEMMA ContentsType ==
    ASSUME NEW ch \in Seq(Blocks)
    PROVE  P!Contents(ch) \in Seq(Nat) /\ P!Contents(ch) = P!FlattenSeq(Lefts(ch))
<1>1. PICK l \in Seq(Seq(Nat)) : l = Lefts(ch)
  BY LeftsFacts
<1>2. P!FlattenSeq(l) \in Seq(Nat)
  BY FlatType
<1> QED BY <1>1, <1>2 DEF P!Contents, Lefts

LEMMA ContentsEmpty == P!Contents(<<>>) = <<>>
<1>1. PICK e \in Seq(Blocks) : e = <<>>
  BY EmptySeq
<1>2. PICK l \in Seq(Seq(Nat)) : l = Lefts(e) /\ Len(l) = 0
  BY <1>1, LeftsFacts, EmptySeq
<1>3. l = <<>>
  BY <1>2, EmptySeq
<1> QED BY <1>1, <1>2, <1>3, ContentsType, FlatEmpty

LEMMA ContentsConcat ==
    ASSUME NEW c \in Seq(Blocks), NEW d \in Seq(Blocks)
    PROVE  P!Contents(c \o d) = P!Contents(c) \o P!Contents(d)
<1>1. PICK l \in Seq(Seq(Nat)) : l = Lefts(c)
  BY LeftsFacts
<1>2. PICK m \in Seq(Seq(Nat)) : m = Lefts(d)
  BY LeftsFacts
<1>3. PICK e \in Seq(Blocks) : e = c \o d
  BY ConcatProperties
<1>4. PICK n \in Seq(Seq(Nat)) : n = Lefts(e)
  BY LeftsFacts
<1>5. PICK u \in Seq(Seq(Nat)) : u = l \o m
  BY ConcatProperties
<1>6. PICK j \in Nat : j = Len(c)
  BY LenProperties
<1>7. PICK k \in Nat : k = Len(d)
  BY LenProperties
<1>8. Len(l) = j /\ \A i \in 1 .. j : l[i] = P!Left(c[i])
  BY <1>1, <1>6, LeftsFacts
<1>9. Len(m) = k /\ \A i \in 1 .. k : m[i] = P!Left(d[i])
  BY <1>2, <1>7, LeftsFacts
<1>10. Len(e) = j + k /\ \A i \in 1 .. j + k : e[i] = IF i <= j THEN c[i] ELSE d[i - j]
  BY <1>3, <1>6, <1>7, ConcatProperties
<1>11. Len(n) = j + k /\ \A i \in 1 .. j + k : n[i] = P!Left(e[i])
  BY <1>4, <1>10, LeftsFacts
<1>12. Len(u) = j + k /\ \A i \in 1 .. j + k : u[i] = IF i <= j THEN l[i] ELSE m[i - j]
  BY <1>5, <1>8, <1>9, ConcatProperties
<1>13. ASSUME NEW i \in 1 .. j + k PROVE n[i] = u[i]
  <2>1. CASE i <= j
    <3>1. i \in 1 .. j
      BY <2>1
    <3> QED BY <1>8, <1>10, <1>11, <1>12, <2>1, <3>1
  <2>2. CASE ~(i <= j)
    <3>1. PICK h \in 1 .. k : h = i - j
      BY <2>2
    <3> QED BY <1>9, <1>10, <1>11, <1>12, <2>2, <3>1
  <2> QED BY <2>1, <2>2
<1>14. n = u
  BY <1>11, <1>12, <1>13, SeqEqual
<1>15. P!FlattenSeq(l \o m) = P!FlattenSeq(l) \o P!FlattenSeq(m)
  BY FlatConcat
<1>16. /\ P!Contents(c) = P!FlattenSeq(l) /\ P!Contents(d) = P!FlattenSeq(m)
       /\ P!Contents(e) = P!FlattenSeq(n)
  BY <1>1, <1>2, <1>4, ContentsType
<1> QED BY <1>3, <1>5, <1>14, <1>15, <1>16

(* A chain of one block, and a sequence of one element. *)
LEMMA ContentsOne ==
    ASSUME NEW b \in Blocks
    PROVE  <<b>> \in Seq(Blocks) /\ P!Contents(<<b>>) = P!Left(b)
<1>1. PICK e \in Seq(Blocks) : e = <<b>>
  <2>1. PICK d \in Seq(Blocks) : d = <<>>
    BY EmptySeq
  <2>2. Append(d, b) = <<b>> /\ Append(d, b) \in Seq(Blocks)
    BY <2>1, AppendProperties
  <2> QED BY <2>2
<1>2. Len(e) = 1 /\ e[1] = b
  BY <1>1
<1>3. PICK l \in Seq(Seq(Nat)) : l = Lefts(e)
  BY LeftsFacts
<1>4. PICK x \in Seq(Nat) : x = P!Left(b)
  BY LeftFacts
<1>5. Len(l) = 1 /\ l[1] = x
  BY <1>2, <1>3, <1>4, LeftsFacts
<1>6. l = <<x>>
  BY <1>5
<1>7. P!FlattenSeq(<<x>>) = x
  BY FlatOne
<1> QED BY <1>1, <1>3, <1>4, <1>6, <1>7, ContentsType

LEMMA OneSeq ==
    ASSUME NEW S, NEW x \in S
    PROVE  \E o \in Seq(S) : o = <<x>>
<1>1. PICK e \in Seq(S) : e = <<>>
  BY EmptySeq
<1>2. PICK o \in Seq(S) : o = Append(e, x)
  BY AppendProperties
<1>3. Append(e, x) = <<x>>
  BY <1>1
<1> QED BY <1>2, <1>3

(* A sequence about its f-th element. *)
Parts(s, f, a, o, r, z) ==
    /\ a = SubSeq(s, 1, f - 1) /\ o = <<s[f]>> /\ r = SubSeq(s, f + 1, Len(s))
    /\ z = SubSeq(s, f, Len(s)) /\ SubSeq(s, 1, f) = a \o o /\ z = o \o r /\ s = a \o z

LEMMA SplitAt ==
    ASSUME NEW S, NEW s \in Seq(S), NEW f \in 1 .. Len(s)
    PROVE  \E a, o, r, z \in Seq(S) : Parts(s, f, a, o, r, z)
<1>1. PICK m \in Nat : m = Len(s)
  BY LenProperties
<1>2. f \in 1 .. m /\ f - 1 \in 0 .. m /\ f \in 0 .. m /\ 1 \in 1 .. m /\ m \in f .. m /\ f \in 1 .. f
  BY <1>1
<1>3. PICK a \in Seq(S) : a = SubSeq(s, 1, f - 1)
  BY <1>1, <1>2, CutSeq
<1>4. PICK r \in Seq(S) : r = SubSeq(s, f + 1, m)
  BY <1>1, <1>2, CutSeq
<1>5. PICK x \in S : x = s[f]
  BY ElementOfSeq
<1>6. PICK o \in Seq(S) : o = <<x>>
  BY OneSeq
<1>7. SubSeq(s, 1, f) = a \o o
  BY <1>1, <1>2, <1>3, <1>5, <1>6, SubSeqRecursiveSecond
<1>8. SubSeq(s, f, m) = o \o r
  BY <1>1, <1>2, <1>4, <1>5, <1>6, SubSeqRecursiveFirst
<1>9. PICK z \in Seq(S) : z = o \o r
  BY ConcatProperties
<1>10. a \o z = s
  <2>1. PICK n \in 0 .. m : n = f - 1
    BY <1>2
  <2>2. SubSeq(s, 1, n) \o SubSeq(s, n + 1, m) = s
    BY <1>1, CutSeq
  <2>3. n + 1 = f
    BY <2>1
  <2> QED BY <1>3, <1>8, <1>9, <2>1, <2>2, <2>3
<1>11. Parts(s, f, a, o, r, z)
  BY <1>1, <1>3, <1>4, <1>5, <1>6, <1>7, <1>8, <1>9, <1>10 DEF Parts
<1> QED BY <1>11

(* One element of a sequence replaced: its place n is before r and behind a. *)
Single(s, x) == s = <<x>>

LEMMA SingleFacts ==
    ASSUME NEW x, NEW o, Single(o, x), NEW e \in Nat, e = 1
    PROVE  Len(o) = e /\ o[e] = x
BY DEF Single

Chained(u, s, t, m, n) ==
    /\ Len(u) = m + n
    /\ \A i \in 1 .. m + n : u[i] = IF i <= m THEN s[i] ELSE t[i - m]

(* The elements of two sequences end to end, and of one with an element replaced. *)
LEMMA ConcatAt ==
    ASSUME NEW S, NEW s \in Seq(S), NEW t \in Seq(S), NEW u \in Seq(S), u = s \o t,
           NEW m \in Nat, m = Len(s), NEW n \in Nat, n = Len(t)
    PROVE  Chained(u, s, t, m, n)
BY ConcatProperties DEF Chained

Replaced(h, s, n, y) ==
    /\ Len(h) = Len(s)
    /\ \A i \in 1 .. Len(s) : h[i] = IF i = n THEN y ELSE s[i]

LEMMA ExceptAt ==
    ASSUME NEW S, NEW s \in Seq(S), NEW n \in 1 .. Len(s), NEW y \in S,
           NEW h \in Seq(S), h = [s EXCEPT ![n] = y]
    PROVE  Replaced(h, s, n, y)
BY ExceptSeq DEF Replaced

NewEnd(z, n, b, y, u) == z[n] = b /\ n \in DOMAIN z /\ [z EXCEPT ![n] = y] = u

(* Replacing the first or the last element, as a change of the end block does. *)
LEMMA FirstReplaced ==
    ASSUME NEW S, NEW b \in S, NEW y \in S, NEW r \in Seq(S), NEW e \in Nat, e = 1,
           NEW o \in Seq(S), Single(o, b), NEW k \in Seq(S), Single(k, y),
           NEW z \in Seq(S), z = o \o r
    PROVE  NewEnd(z, e, b, y, k \o r)
<1>1. PICK j \in Nat : j = Len(r)
  BY LenProperties
<1>2. Len(o) = e /\ o[e] = b /\ Len(k) = e /\ k[e] = y
  BY SingleFacts
<1>3. Len(z) = e + j /\ \A i \in 1 .. e + j : z[i] = IF i <= e THEN o[i] ELSE r[i - e]
  <2>1. Chained(z, o, r, e, j)
    BY <1>1, <1>2, ConcatAt
  <2> QED BY <2>1 DEF Chained
<1>4. PICK g \in Seq(S) : g = k \o r
  BY ConcatProperties
<1>5. Len(g) = e + j /\ \A i \in 1 .. e + j : g[i] = IF i <= e THEN k[i] ELSE r[i - e]
  <2>1. Chained(g, k, r, e, j)
    BY <1>1, <1>2, <1>4, ConcatAt
  <2> QED BY <2>1 DEF Chained
<1>6. e \in 1 .. Len(z) /\ e \in DOMAIN z
  BY <1>1, <1>3, LenProperties
<1>7. z[e] = b /\ g[e] = y
  BY <1>1, <1>2, <1>3, <1>5
<1>8. PICK h \in Seq(S) : h = [z EXCEPT ![e] = y]
  BY <1>6, ExceptSeq
<1>9. Len(h) = Len(z) /\ \A i \in 1 .. Len(z) : h[i] = IF i = e THEN y ELSE z[i]
  <2>1. Replaced(h, z, e, y)
    BY <1>6, <1>8, ExceptAt
  <2> QED BY <2>1 DEF Replaced
<1>10. ASSUME NEW i \in 1 .. Len(h) PROVE h[i] = g[i]
  <2>0. i \in 1 .. Len(z) /\ i \in 1 .. e + j
    BY <1>3, <1>9
  <2>1. CASE i = e
    BY <1>7, <1>9, <2>0, <2>1
  <2>2. CASE i # e
    <3>1. ~(i <= e)
      BY <2>0, <2>2
    <3> QED BY <1>3, <1>5, <1>9, <2>0, <2>2, <3>1
  <2> QED BY <2>1, <2>2
<1>11. h = g
  <2>1. Len(h) = Len(g)
    BY <1>3, <1>5, <1>9
  <2> QED BY <1>10, <2>1, SeqEqual
<1> QED BY <1>4, <1>6, <1>7, <1>8, <1>11 DEF NewEnd

LEMMA LastReplaced ==
    ASSUME NEW S, NEW b \in S, NEW y \in S, NEW a \in Seq(S), NEW e \in Nat, e = 1,
           NEW o \in Seq(S), Single(o, b), NEW k \in Seq(S), Single(k, y),
           NEW z \in Seq(S), z = a \o o, NEW n \in Nat, n = Len(z)
    PROVE  NewEnd(z, n, b, y, a \o k)
<1>1. PICK j \in Nat : j = Len(a)
  BY LenProperties
<1>2. Len(o) = e /\ o[e] = b /\ Len(k) = e /\ k[e] = y
  BY SingleFacts
<1>3. Len(z) = j + e /\ \A i \in 1 .. j + e : z[i] = IF i <= j THEN a[i] ELSE o[i - j]
  <2>1. Chained(z, a, o, j, e)
    BY <1>1, <1>2, ConcatAt
  <2> QED BY <2>1 DEF Chained
<1>4. PICK g \in Seq(S) : g = a \o k
  BY ConcatProperties
<1>5. Len(g) = j + e /\ \A i \in 1 .. j + e : g[i] = IF i <= j THEN a[i] ELSE k[i - j]
  <2>1. Chained(g, a, k, j, e)
    BY <1>1, <1>2, <1>4, ConcatAt
  <2> QED BY <2>1 DEF Chained
<1>6. n = j + e /\ n \in 1 .. Len(z) /\ n \in DOMAIN z
  BY <1>1, <1>3, LenProperties
<1>7. z[n] = b /\ g[n] = y
  <2>1. n \in 1 .. j + e /\ ~(n <= j) /\ n - j = e
    BY <1>1, <1>6
  <2> QED BY <1>2, <1>3, <1>5, <2>1
<1>8. PICK h \in Seq(S) : h = [z EXCEPT ![n] = y]
  BY <1>6, ExceptSeq
<1>9. Len(h) = Len(z) /\ \A i \in 1 .. Len(z) : h[i] = IF i = n THEN y ELSE z[i]
  <2>1. Replaced(h, z, n, y)
    BY <1>6, <1>8, ExceptAt
  <2> QED BY <2>1 DEF Replaced
<1>10. ASSUME NEW i \in 1 .. Len(h) PROVE h[i] = g[i]
  <2>0. i \in 1 .. Len(z) /\ i \in 1 .. j + e
    BY <1>3, <1>9
  <2>1. CASE i = n
    BY <1>7, <1>9, <2>0, <2>1
  <2>2. CASE i # n
    <3>1. i <= j
      BY <1>1, <1>6, <2>0, <2>2
    <3> QED BY <1>3, <1>5, <1>9, <2>0, <2>2, <3>1
  <2> QED BY <2>1, <2>2
<1>11. h = g
  <2>1. Len(h) = Len(g)
    BY <1>3, <1>5, <1>9
  <2> QED BY <1>10, <2>1, SeqEqual
<1> QED BY <1>4, <1>6, <1>7, <1>8, <1>11 DEF NewEnd

(* A block of which d bytes more are consumed. *)
LEMMA BlockConsumed ==
    ASSUME NEW b \in Blocks, NEW d \in Nat, d < Len(P!Left(b)), NEW x, x = [b EXCEPT !.bufpos = @ + d]
    PROVE  x \in Blocks /\ P!Left(x) = Drop(P!Left(b), d)
<1>1. PICK t \in Seq(Nat) : t = b.buf
  BY DEF Blocks
<1>2. PICK q \in 0 .. Len(t) : q = b.bufpos
  BY <1>1, LeftFacts
<1>3. d < Len(t) - q /\ Len(t) \in Nat
  BY <1>1, <1>2, LeftFacts, LenProperties
<1>4. x = [buf |-> t, bufpos |-> q + d]
  BY <1>1, <1>2 DEF Blocks
<1>5. x \in Blocks
  <2>1. Len(t) <= Granule /\ q + d \in Nat /\ q + d <= Len(t)
    BY <1>1, <1>3 DEF Blocks
  <2>2. PICK e \in Nat : e = q + d
    BY <2>1
  <2>3. x = [buf |-> t, bufpos |-> e]
    BY <1>4, <2>2
  <2>4. [buf |-> t, bufpos |-> e] \in [buf : Seq(Nat), bufpos : Nat] /\ x.buf = t /\ x.bufpos = e
    BY <2>3
  <2> QED BY <2>1, <2>2, <2>3, <2>4 DEF Blocks
<1>6. P!Left(x) = Drop(t, q + d)
  <2>1. x.buf = t /\ x.bufpos = q + d
    BY <1>4
  <2> QED BY <2>1 DEF P!Left, Drop
<1>7. PICK u \in Seq(Nat) : u = SubSeq(t, 1, q)
  BY CutSeq
<1>8. PICK v \in Seq(Nat) : v = Drop(t, q)
  BY CutSeq DEF Drop
<1>9. u \o v = t /\ Len(u) = q
  BY <1>7, <1>8, CutSeq DEF Drop
<1>10. Drop(u \o v, q + d) = Drop(v, d)
  <2>1. PICK z \in Nat : z = q + d
    BY <1>3
  <2>2. z >= Len(u) /\ z - Len(u) = d
    BY <1>3, <1>9, <2>1
  <2>3. Drop(u \o v, z) = Drop(v, z - Len(u))
    BY <2>2, DropBehind
  <2> QED BY <2>1, <2>2, <2>3
<1>11. P!Left(b) = v
  BY <1>1, <1>2, <1>8, LeftFacts
<1> QED BY <1>5, <1>6, <1>9, <1>10, <1>11

(* What is before a block and in it. *)
LEMMA BeforeFacts ==
    ASSUME NEW ch \in Seq(Blocks), NEW f \in 1 .. Len(ch)
    PROVE  /\ P!Before(ch, f) \in Nat
           /\ P!Before(ch, f) = Len(P!Contents(SubSeq(ch, 1, f - 1)))
           /\ Len(P!Contents(SubSeq(ch, 1, f))) = P!Before(ch, f) + Len(P!Left(ch[f]))
           /\ Len(P!Left(ch[f])) \in Nat
<1>1. PICK a, o, r, z \in Seq(Blocks) : Parts(ch, f, a, o, r, z)
  BY SplitAt
<1>2. PICK b \in Blocks : b = ch[f]
  BY ElementOfSeq
<1>3. o = <<b>>
  BY <1>1, <1>2 DEF Parts
<1>4. a = SubSeq(ch, 1, f - 1) /\ SubSeq(ch, 1, f) = a \o o
  BY <1>1 DEF Parts
<1>5. PICK s \in Seq(Nat) : s = P!Contents(a)
  BY ContentsType
<1>6. PICK t \in Seq(Nat) : t = P!Left(b)
  BY LeftFacts
<1>7. P!Contents(a \o o) = s \o t
  BY <1>3, <1>5, <1>6, ContentsConcat, ContentsOne
<1>8. Len(s \o t) = Len(s) + Len(t) /\ Len(s) \in Nat /\ Len(t) \in Nat
  BY ConcatProperties, LenProperties
<1> QED BY <1>2, <1>4, <1>5, <1>6, <1>7, <1>8 DEF P!Before, P!bufchain_size

(* Bytes are consumed at the front, as many as are asked for or as there are. *)
LEMMA ConsumeFacts ==
    ASSUME NEW ch \in Seq(Blocks), NEW n \in Nat
    PROVE  /\ P!bufchain_consume(ch, n) \in Seq(Blocks)
           /\ P!Contents(P!bufchain_consume(ch, n)) = Drop(P!Contents(ch), n)
<1> DEFINE kept == {i \in DOMAIN ch : P!Before(ch, i) + Len(P!Left(ch[i])) > n}
           first == CHOOSE i \in kept : \A j \in kept : i <= j
<1>1. PICK m \in Nat : m = Len(ch)
  BY LenProperties
<1>2. DOMAIN ch = 1 .. m
  BY <1>1, LenProperties
<1>3. PICK w \in Seq(Nat) : w = P!Contents(ch)
  BY ContentsType
<1>4. CASE kept = {}
  <2>1. P!bufchain_consume(ch, n) = <<>>
    BY <1>4 DEF P!bufchain_consume
  <2>2. Len(w) <= n
    <3>1. CASE m = 0
      <4>1. ch = <<>>
        BY <1>1, <3>1, EmptySeq
      <4> QED BY <1>3, <4>1, ContentsEmpty, EmptySeq
    <3>2. CASE m # 0
      <4>1. m \in 1 .. Len(ch) /\ m \notin kept
        BY <1>1, <1>4, <3>2
      <4>2. ~(P!Before(ch, m) + Len(P!Left(ch[m])) > n)
        BY <1>1, <1>2, <4>1
      <4> HIDE DEF kept
      <4>3. SubSeq(ch, 1, m) = ch
        BY <1>1, SubSeqFull
      <4>4. /\ Len(P!Contents(SubSeq(ch, 1, m))) = P!Before(ch, m) + Len(P!Left(ch[m]))
            /\ P!Before(ch, m) \in Nat /\ Len(P!Left(ch[m])) \in Nat
        BY <4>1, BeforeFacts
      <4>5. Len(w) = P!Before(ch, m) + Len(P!Left(ch[m]))
        BY <1>3, <4>3, <4>4
      <4> QED BY <4>2, <4>4, <4>5
    <3> QED BY <3>1, <3>2
  <2>3. Drop(w, n) = <<>>
    BY <2>2, DropNone, LenProperties
  <2>4. <<>> \in Seq(Blocks)
    BY EmptySeq
  <2> QED BY <1>3, <2>1, <2>3, <2>4, ContentsEmpty
<1>5. CASE kept # {}
  <2>1. first \in kept /\ \A j \in kept : first <= j
    <3>1. kept \subseteq Nat
      BY <1>2
    <3> HIDE DEF kept
    <3>2. \E i \in kept : \A j \in kept : i <= j
      BY <1>5, <3>1, LeastOf
    <3> QED BY <3>2
  <2>2. PICK f \in 1 .. Len(ch) : f = first
    BY <1>1, <1>2, <2>1
  <2>3. P!Before(ch, f) + Len(P!Left(ch[f])) > n
    BY <2>1, <2>2
  <2>4. f # 1 => f - 1 \in 1 .. Len(ch) /\ ~(P!Before(ch, f - 1) + Len(P!Left(ch[f - 1])) > n)
    <3>1. SUFFICES ASSUME f # 1, P!Before(ch, f - 1) + Len(P!Left(ch[f - 1])) > n PROVE FALSE
      BY <1>1, <2>2
    <3>2. f - 1 \in kept
      BY <1>1, <1>2, <3>1
    <3> HIDE DEF kept, first
    <3> QED BY <1>1, <2>1, <2>2, <3>2
  <2>5. P!bufchain_consume(ch, n) = [SubSeq(ch, f, Len(ch)) EXCEPT ![1].bufpos = @ + n - P!Before(ch, f)]
    BY <1>5, <2>2 DEF P!bufchain_consume
  <2> HIDE DEF kept, first
  <2>6. PICK p \in Nat : p = P!Before(ch, f)
    BY BeforeFacts
  <2>7. p <= n
    <3>1. CASE f = 1
      <4>1. SubSeq(ch, 1, f - 1) = <<>>
        BY <3>1, SubSeqEmpty
      <4>2. p = 0
        BY <2>6, <4>1, BeforeFacts, ContentsEmpty, EmptySeq
      <4> QED BY <4>2
    <3>2. CASE f # 1
      <4>1. PICK e \in 1 .. Len(ch) : e = f - 1
        BY <2>4, <3>2
      <4>2. Len(P!Contents(SubSeq(ch, 1, e))) = P!Before(ch, e) + Len(P!Left(ch[e]))
        BY BeforeFacts
      <4>3. p = Len(P!Contents(SubSeq(ch, 1, f - 1)))
        BY <2>6, BeforeFacts
      <4>4. P!Before(ch, e) \in Nat /\ Len(P!Left(ch[e])) \in Nat
        BY BeforeFacts
      <4> QED BY <2>4, <3>2, <4>1, <4>2, <4>3, <4>4
    <3> QED BY <3>1, <3>2
  <2>8. PICK a, o, r, z \in Seq(Blocks) : Parts(ch, f, a, o, r, z)
    BY SplitAt
  <2>9. PICK b \in Blocks : b = ch[f]
    BY ElementOfSeq
  <2>10. /\ o = <<b>> /\ z = o \o r /\ ch = a \o z
         /\ z = SubSeq(ch, f, Len(ch)) /\ a = SubSeq(ch, 1, f - 1)
    BY <2>8, <2>9 DEF Parts
  <2>11. PICK d \in Nat : d = n - p
    BY <2>7
  <2>12. d < Len(P!Left(b)) /\ Len(P!Left(b)) \in Nat
    BY <2>3, <2>6, <2>9, <2>11, BeforeFacts
  <2>13. PICK x : x = [b EXCEPT !.bufpos = @ + d]
    OBVIOUS
  <2>14. x \in Blocks /\ P!Left(x) = Drop(P!Left(b), d)
    BY <2>12, <2>13, BlockConsumed
  <2>15. PICK y \in Blocks : y = x
    BY <2>14
  <2>16. PICK k \in Seq(Blocks) : k = <<y>>
    BY OneSeq
  <2>17. P!bufchain_consume(ch, n) = k \o r
    <3>1. z[1] = b /\ 1 \in DOMAIN z /\ [z EXCEPT ![1] = y] = k \o r
      <4>1. Single(o, b) /\ Single(k, y) /\ z = o \o r
        BY <2>10, <2>16 DEF Single
      <4>2. PICK e \in Nat : e = 1
        OBVIOUS
      <4>3. NewEnd(z, e, b, y, k \o r)
        BY <4>1, <4>2, FirstReplaced
      <4> QED BY <4>2, <4>3 DEF NewEnd
    <3>2. z[1].bufpos + n - p = z[1].bufpos + d
      BY <2>6, <2>11, <3>1 DEF Blocks
    <3>3. [z EXCEPT ![1].bufpos = @ + n - p] = [z EXCEPT ![1] = [b EXCEPT !.bufpos = @ + d]]
      BY <3>1, <3>2
    <3> QED BY <2>5, <2>6, <2>10, <2>13, <2>15, <3>1, <3>3
  <2>18. PICK ra \in Seq(Nat) : ra = P!Contents(r)
    BY ContentsType
  <2>19. PICK aa \in Seq(Nat) : aa = P!Contents(a)
    BY ContentsType
  <2>20. PICK ba \in Seq(Nat) : ba = P!Left(b)
    BY LeftFacts
  <2>21. PICK br \in Seq(Nat) : br = ba \o ra
    BY ConcatProperties
  <2>22. w = aa \o br
    <3>1. P!Contents(o) = ba
      BY <2>10, <2>20, ContentsOne
    <3>2. P!Contents(o \o r) = P!Contents(o) \o P!Contents(r)
      BY ContentsConcat
    <3>3. P!Contents(a \o z) = P!Contents(a) \o P!Contents(z)
      BY ContentsConcat
    <3> QED BY <1>3, <2>10, <2>18, <2>19, <2>21, <3>1, <3>2, <3>3
  <2>23. Drop(w, n) = Drop(br, d)
    <3>1. Len(aa) = p
      <4>1. P!Before(ch, f) = Len(P!Contents(SubSeq(ch, 1, f - 1)))
        BY BeforeFacts
      <4> QED BY <2>6, <2>10, <2>19, <4>1
    <3>2. Drop(aa \o br, n) = Drop(br, n - Len(aa))
      BY <2>7, <3>1, DropBehind
    <3> QED BY <2>11, <2>22, <3>1, <3>2
  <2>24. Drop(br, d) = Drop(ba, d) \o ra
    <3>1. d \in 0 .. Len(ba)
      BY <2>12, <2>20
    <3> QED BY <2>21, <3>1, DropFirst
  <2>25. P!Contents(k) = Drop(ba, d)
    BY <2>14, <2>15, <2>16, <2>20, ContentsOne
  <2>26. k \o r \in Seq(Blocks) /\ P!Contents(k \o r) = P!Contents(k) \o P!Contents(r)
    BY ConcatProperties, ContentsConcat
  <2> QED BY <1>3, <2>17, <2>18, <2>23, <2>24, <2>25, <2>26
<1> QED BY <1>4, <1>5

(* The blocks that bufchain_add() makes for what the last one has no room for. *)
Limit(rest, k) == P!Least(k * Granule, Len(rest))
Chunk(rest, k) == SubSeq(rest, (k - 1) * Granule + 1, Limit(rest, k))
Chunks(rest) == [k \in 1 .. (Len(rest) + Granule - 1) \div Granule |-> P!Block(Chunk(rest, k))]

LEMMA ChunksEnough ==
    ASSUME NEW G \in Nat \ {0}, NEW n \in Nat, NEW m, m = (n + G - 1) \div G
    PROVE  m \in Nat /\ m * G <= n + G - 1 /\ n <= m * G
OBVIOUS

(* Arithmetic of the blocks, and a block filled afresh. *)
LEMMA Multiples ==
    ASSUME NEW G \in Nat \ {0}, NEW k \in Nat \ {0}, NEW m \in Nat, k <= m
    PROVE  (k - 1) * G \in Nat /\ k * G = (k - 1) * G + G /\ k * G <= m * G
OBVIOUS

LEMMA BlockFacts ==
    ASSUME NEW x \in Seq(Nat), Len(x) <= Granule
    PROVE  P!Block(x) \in Blocks /\ P!Left(P!Block(x)) = x
<1>1. PICK b \in [buf : Seq(Nat), bufpos : Nat] : b = P!Block(x) /\ b.buf = x /\ b.bufpos = 0
  <2>1. PICK z \in Nat : z = 0
    OBVIOUS
  <2>2. [buf |-> x, bufpos |-> z] \in [buf : Seq(Nat), bufpos : Nat]
    OBVIOUS
  <2> QED BY <2>1, <2>2 DEF P!Block
<1>2. Len(x) \in Nat
  BY LenProperties
<1>3. b \in Blocks
  BY <1>1, <1>2 DEF Blocks
<1>4. SubSeq(x, 1, Len(x)) = x
  BY SubSeqFull
<1> QED BY <1>1, <1>3, <1>4 DEF P!Left

(* Where the k-th begins and ends. *)
LEMMA ChunkFacts ==
    ASSUME NEW rest \in Seq(Nat), NEW m \in Nat, m = (Len(rest) + Granule - 1) \div Granule,
           NEW k \in 1 .. m
    PROVE  /\ Limit(rest, k - 1) = (k - 1) * Granule /\ Limit(rest, k - 1) \in 0 .. Len(rest)
           /\ Limit(rest, k) \in Limit(rest, k - 1) .. Len(rest)
           /\ P!Block(Chunk(rest, k)) \in Blocks /\ P!Left(P!Block(Chunk(rest, k))) = Chunk(rest, k)
           /\ Chunk(rest, k) \in Seq(Nat)
<1>1. PICK l \in Nat : l = Len(rest)
  BY LenProperties
<1>2. PICK G \in Nat \ {0} : G = Granule
  BY GranuleIs
<1>3. m * G <= l + G - 1
  BY <1>1, <1>2, ChunksEnough
<1>4. k \in Nat \ {0} /\ k <= m
  OBVIOUS
<1>5. PICK u \in Nat : u = (k - 1) * G
  BY <1>4, Multiples
<1>6. k * G = u + G /\ k * G <= m * G
  BY <1>4, <1>5, Multiples
<1>7. u < l
  BY <1>3, <1>4, <1>6
<1>8. Limit(rest, k - 1) = u
  BY <1>1, <1>2, <1>5, <1>7 DEF Limit, P!Least
<1>9. PICK v \in Nat : v = Limit(rest, k) /\ u <= v /\ v <= l /\ v - u <= G
  <2>1. PICK w \in Nat : w = k * G
    BY <1>2, <1>5, <1>6
  <2>2. Limit(rest, k) = IF w < l THEN w ELSE l
    BY <1>1, <1>2, <2>1 DEF Limit, P!Least
  <2> QED BY <1>2, <1>6, <1>7, <2>1, <2>2
<1>10. Chunk(rest, k) = SubSeq(rest, u + 1, v)
  BY <1>2, <1>5, <1>9 DEF Chunk
<1>11. SubSeq(rest, u + 1, v) \in Seq(Nat) /\ Len(SubSeq(rest, u + 1, v)) <= G
  <2>1. u + 1 \in Int /\ v \in Int /\ \A i \in u + 1 .. v : rest[i] \in Nat
    BY <1>1, <1>9, ElementOfSeq
  <2>2. Len(SubSeq(rest, u + 1, v)) = IF u + 1 <= v THEN v - (u + 1) + 1 ELSE 0
    BY <2>1, SubSeqProperties
  <2>3. SubSeq(rest, u + 1, v) \in Seq(Nat)
    BY <2>1, SubSeqProperties
  <2> QED BY <1>2, <1>9, <2>2, <2>3
<1>12. PICK x \in Seq(Nat) : x = Chunk(rest, k) /\ Len(x) <= Granule
  BY <1>2, <1>10, <1>11
<1>13. P!Block(x) \in Blocks /\ P!Left(P!Block(x)) = x
  BY <1>12, BlockFacts
<1>14. Limit(rest, k - 1) = (k - 1) * Granule /\ Limit(rest, k - 1) \in 0 .. Len(rest)
  <2>1. u = (k - 1) * Granule
    BY <1>2, <1>5
  <2>2. u \in 0 .. l
    BY <1>7
  <2> QED BY <1>1, <1>8, <2>1, <2>2
<1>15. Limit(rest, k) \in Limit(rest, k - 1) .. Len(rest)
  BY <1>1, <1>8, <1>9
<1> QED BY <1>12, <1>13, <1>14, <1>15

(* The first k of them hold what is before the end of the k-th. *)
HoldFirst(c, rest, k) == P!Contents(SubSeq(c, 1, k)) = SubSeq(rest, 1, Limit(rest, k))

LEMMA HoldMore ==
    ASSUME NEW rest \in Seq(Nat), NEW m \in Nat, m = (Len(rest) + Granule - 1) \div Granule,
           NEW c \in Seq(Blocks), c = Chunks(rest), Len(c) = m,
           NEW k \in 1 .. m, HoldFirst(c, rest, k - 1)
    PROVE  HoldFirst(c, rest, k)
<1>1. k \in 1 .. Len(c) /\ c[k] = P!Block(Chunk(rest, k))
  BY DEF Chunks
<1>2. PICK a, o, r, z \in Seq(Blocks) : Parts(c, k, a, o, r, z)
  BY <1>1, SplitAt
<1>3. PICK b \in Blocks : b = P!Block(Chunk(rest, k))
  BY ChunkFacts
<1>4. PICK x \in Seq(Nat) : x = Chunk(rest, k)
  BY ChunkFacts
<1>5. P!Left(b) = x
  BY <1>3, <1>4, ChunkFacts
<1>6. SubSeq(c, 1, k) = a \o o /\ a = SubSeq(c, 1, k - 1) /\ o = <<b>>
  BY <1>1, <1>2, <1>3 DEF Parts
<1>7. P!Contents(o) = x
  BY <1>5, <1>6, ContentsOne
<1>8. P!Contents(a \o o) = P!Contents(a) \o P!Contents(o)
  BY ContentsConcat
<1>9. PICK u \in 0 .. Len(rest) : u = Limit(rest, k - 1) /\ u = (k - 1) * Granule
  BY ChunkFacts
<1>10. PICK v \in u .. Len(rest) : v = Limit(rest, k)
  BY <1>9, ChunkFacts
<1>11. x = SubSeq(rest, u + 1, v)
  BY <1>4, <1>9, <1>10 DEF Chunk
<1>12. SubSeq(rest, 1, u) \o SubSeq(rest, u + 1, v) = SubSeq(rest, 1, v)
  <2>1. PICK e \in 1 .. Len(rest) + 1 : e = 1
    BY LenProperties
  <2>2. u \in e - 1 .. Len(rest)
    BY <2>1
  <2>3. SubSeq(rest, e, u) \o SubSeq(rest, u + 1, v) = SubSeq(rest, e, v)
    BY <2>2, ConcatAdjacentSubSeq
  <2> QED BY <2>1, <2>3
<1> QED BY <1>6, <1>7, <1>8, <1>9, <1>10, <1>11, <1>12 DEF HoldFirst

(* So all that is added is in the new blocks. *)
LEMMA ChunksHoldAll ==
    ASSUME NEW rest \in Seq(Nat)
    PROVE  Chunks(rest) \in Seq(Blocks) /\ P!Contents(Chunks(rest)) = rest
<1>1. PICK l \in Nat : l = Len(rest)
  BY LenProperties
<1>2. PICK G \in Nat \ {0} : G = Granule
  BY GranuleIs
<1>3. PICK m \in Nat : m = (l + G - 1) \div G
  BY <1>1, <1>2, ChunksEnough
<1>4. l <= m * G /\ m * G \in Nat
  <2>1. l <= m * G
    BY <1>3, ChunksEnough
  <2> QED BY <2>1
<1>5. Limit(rest, m) = l
  BY <1>1, <1>2, <1>4 DEF Limit, P!Least
<1>6. PICK c \in Seq(Blocks) : c = Chunks(rest) /\ Len(c) = m
  <2>1. m = (Len(rest) + Granule - 1) \div Granule
    BY <1>1, <1>2, <1>3
  <2>2. \A k \in 1 .. m : P!Block(Chunk(rest, k)) \in Blocks
    BY <2>1, ChunkFacts
  <2>3. Chunks(rest) \in [1 .. m -> Blocks]
    BY <2>1, <2>2 DEF Chunks
  <2> QED BY <2>3
<1> DEFINE D == {k \in Nat : k <= m /\ ~HoldFirst(c, rest, k)}
<1>7. SUFFICES ASSUME D # {} PROVE FALSE
  <2>1. HoldFirst(c, rest, m) => P!Contents(c) = rest
    <3>1. SubSeq(c, 1, m) = c /\ SubSeq(rest, 1, l) = rest
      BY <1>1, <1>6, SubSeqFull
    <3> QED BY <1>5, <3>1 DEF HoldFirst
  <2>2. ASSUME ~HoldFirst(c, rest, m) PROVE m \in D
    BY <2>2
  <2> QED BY <1>6, <2>1, <2>2
<1>8. PICK k \in D : \A j \in D : k <= j
  BY <1>7, LeastOf
<1>9. k \in Nat /\ k <= m /\ ~HoldFirst(c, rest, k)
  BY <1>8
<1>10. k # 0
  <2>1. SUFFICES ASSUME k = 0 PROVE FALSE
    OBVIOUS
  <2>2. Limit(rest, k) = 0
    BY <1>1, <1>2, <2>1 DEF Limit, P!Least
  <2>3. SubSeq(c, 1, k) = <<>> /\ SubSeq(rest, 1, 0) = <<>>
    BY <2>1, SubSeqEmpty
  <2> QED BY <1>9, <2>2, <2>3, ContentsEmpty DEF HoldFirst
<1>11. HoldFirst(c, rest, k - 1)
  BY <1>8, <1>9, <1>10
<1> HIDE DEF D
<1>12. k \in 1 .. m /\ m = (Len(rest) + Granule - 1) \div Granule
  BY <1>1, <1>2, <1>3, <1>9, <1>10
<1> QED BY <1>6, <1>9, <1>11, <1>12, HoldMore

(* The same of sequences of numbers. *)
LEMMA NatAssociative ==
    ASSUME NEW s \in Seq(Nat), NEW t \in Seq(Nat), NEW u \in Seq(Nat)
    PROVE  (s \o t) \o u = s \o (t \o u)
BY ConcatAssociative, SMTT(60)

(* Cutting a sequence in two; and the lesser of two numbers. *)
LEMMA NatCut ==
    ASSUME NEW s \in Seq(Nat), NEW n \in 0 .. Len(s)
    PROVE  \E t, u \in Seq(Nat) : /\ t = SubSeq(s, 1, n) /\ Len(t) = n
                                  /\ u = SubSeq(s, n + 1, Len(s)) /\ t \o u = s
<1>1. PICK t \in Seq(Nat) : t = SubSeq(s, 1, n) /\ Len(t) = n
  <2>1. SubSeq(s, 1, n) \in Seq(Nat) /\ Len(SubSeq(s, 1, n)) = n
    BY CutSeq
  <2> QED BY <2>1
<1>2. PICK u \in Seq(Nat) : u = SubSeq(s, n + 1, Len(s))
  BY CutSeq
<1>3. t \o u = s
  BY <1>1, <1>2, CutSeq
<1> QED BY <1>1, <1>2, <1>3

LEMMA LeastFacts ==
    ASSUME NEW a \in Nat, NEW b \in Nat
    PROVE  P!Least(a, b) \in 0 .. a /\ P!Least(a, b) <= b
BY DEF P!Least

(* A block that u is added to. *)
LEMMA BlockFilled ==
    ASSUME NEW b \in Blocks, NEW u \in Seq(Nat), Len(b.buf) + Len(u) <= Granule,
           NEW y, y = [b EXCEPT !.buf = @ \o u]
    PROVE  y \in Blocks /\ P!Left(y) = P!Left(b) \o u
<1>1. PICK t \in Seq(Nat) : t = b.buf
  BY DEF Blocks
<1>2. PICK q \in 0 .. Len(t) : q = b.bufpos
  BY <1>1, LeftFacts
<1>3. PICK s \in Seq(Nat) : s = t \o u /\ Len(s) = Len(t) + Len(u)
  BY ConcatProperties
<1>4. Len(t) \in Nat /\ Len(u) \in Nat /\ q \in Nat
  BY LenProperties
<1>5. y = [buf |-> s, bufpos |-> q]
  BY <1>1, <1>2, <1>3 DEF Blocks
<1>6. [buf |-> s, bufpos |-> q] \in [buf : Seq(Nat), bufpos : Nat]
  BY <1>4
<1>7. q <= Len(s) /\ Len(s) <= Granule
  BY <1>1, <1>3, <1>4
<1>8. y.buf = s /\ y.bufpos = q
  BY <1>5
<1>9. y \in Blocks
  BY <1>5, <1>6, <1>7, <1>8 DEF Blocks
<1>10. P!Left(y) = Drop(s, q)
  BY <1>8 DEF P!Left, Drop
<1>11. Drop(t \o u, q) = Drop(t, q) \o u
  BY DropFirst
<1>12. P!Left(b) = Drop(t, q)
  BY <1>1, <1>2, LeftFacts
<1> QED BY <1>3, <1>9, <1>10, <1>11, <1>12

(* The last block filled up. *)
LEMMA LastFilled ==
    ASSUME NEW ch \in Seq(Blocks), NEW n \in 1 .. Len(ch), n = Len(ch), NEW u \in Seq(Nat),
           Len(ch[n].buf) + Len(u) <= Granule
    PROVE  /\ [ch EXCEPT ![n].buf = @ \o u] \in Seq(Blocks)
           /\ P!Contents([ch EXCEPT ![n].buf = @ \o u]) = P!Contents(ch) \o u
<1>1. PICK a, o, r, z \in Seq(Blocks) : Parts(ch, n, a, o, r, z)
  BY SplitAt
<1>2. PICK b \in Blocks : b = ch[n]
  BY ElementOfSeq
<1>3. SubSeq(ch, 1, n) = ch
  BY SubSeqFull
<1>4. ch = a \o o /\ o = <<b>>
  BY <1>1, <1>2, <1>3 DEF Parts
<1>5. PICK y : y = [b EXCEPT !.buf = @ \o u]
  OBVIOUS
<1>6. y \in Blocks /\ P!Left(y) = P!Left(b) \o u
  BY <1>2, <1>5, BlockFilled
<1>7. PICK x \in Blocks : x = y
  BY <1>6
<1>8. PICK k \in Seq(Blocks) : k = <<x>>
  BY OneSeq
<1>9. [ch EXCEPT ![n].buf = @ \o u] = a \o k
  <2>1. PICK e \in Nat : e = 1
    OBVIOUS
  <2>2. Single(o, b) /\ Single(k, x)
    BY <1>4, <1>8 DEF Single
  <2>3. PICK m \in Nat : m = n /\ m = Len(ch)
    BY LenProperties
  <2>4. NewEnd(ch, m, b, x, a \o k)
    BY <1>4, <2>1, <2>2, <2>3, LastReplaced
  <2>5. [ch EXCEPT ![n] = x] = a \o k /\ n \in DOMAIN ch
    BY <2>3, <2>4 DEF NewEnd
  <2>6. [ch EXCEPT ![n].buf = @ \o u] = [ch EXCEPT ![n] = [b EXCEPT !.buf = @ \o u]]
    BY <1>2, <2>5
  <2> QED BY <1>5, <1>7, <2>5, <2>6
<1>10. a \o k \in Seq(Blocks)
  BY ConcatProperties
<1>11. P!Contents(a \o k) = P!Contents(a) \o P!Contents(k)
  BY ContentsConcat
<1>12. P!Contents(a \o o) = P!Contents(a) \o P!Contents(o)
  BY ContentsConcat
<1>13. P!Contents(k) = P!Left(y) /\ P!Contents(o) = P!Left(b)
  BY <1>4, <1>7, <1>8, ContentsOne
<1>14. (P!Contents(a) \o P!Left(b)) \o u = P!Contents(a) \o (P!Left(b) \o u)
  <2>1. PICK i \in Seq(Nat) : i = P!Contents(a)
    BY ContentsType
  <2>2. PICK j \in Seq(Nat) : j = P!Left(b)
    BY LeftFacts
  <2>3. (i \o j) \o u = i \o (j \o u)
    BY NatAssociative
  <2> QED BY <2>1, <2>2, <2>3
<1> QED BY <1>4, <1>6, <1>9, <1>10, <1>11, <1>12, <1>13, <1>14

(* bufchain_add(): the bytes are added at the end, each once. *)
LEMMA AddFacts ==
    ASSUME NEW ch \in Seq(Blocks), NEW data \in Seq(Nat)
    PROVE  /\ P!bufchain_add(ch, data) \in Seq(Blocks)
           /\ P!Contents(P!bufchain_add(ch, data)) = P!Contents(ch) \o data
<1> DEFINE room == IF ch = <<>> THEN 0 ELSE P!Least(Len(data), Granule - Len(ch[Len(ch)].buf))
           filled == IF ch = <<>> THEN ch
                     ELSE [ch EXCEPT ![Len(ch)].buf = @ \o SubSeq(data, 1, room)]
<1>1. P!bufchain_add(ch, data) = filled \o Chunks(SubSeq(data, room + 1, Len(data)))
  BY DEF P!bufchain_add, Chunks, Chunk, Limit
<1>2. PICK l \in Nat : l = Len(data)
  BY LenProperties
<1>3. PICK w \in Seq(Nat) : w = P!Contents(ch)
  BY ContentsType
<1>4. \E h \in 0 .. Len(data) : /\ h = room /\ filled \in Seq(Blocks)
                                /\ P!Contents(filled) = w \o SubSeq(data, 1, h)
  <2>1. CASE ch = <<>>
    <3>1. room = 0 /\ filled = <<>>
      BY <2>1
    <3>2. SubSeq(data, 1, 0) = <<>>
      BY SubSeqEmpty
    <3>3. w = <<>> /\ w \o <<>> = w
      BY <1>3, <2>1, ContentsEmpty, ConcatEmptySeq
    <3>4. 0 \in 0 .. Len(data) /\ <<>> \in Seq(Blocks)
      BY <1>2, EmptySeq
    <3> QED BY <3>1, <3>2, <3>3, <3>4, ContentsEmpty
  <2>2. CASE ch # <<>>
    <3>1. PICK n \in 1 .. Len(ch) : n = Len(ch)
      BY <2>2, EmptySeq
    <3>2. PICK b \in Blocks : b = ch[n]
      BY ElementOfSeq
    <3>3. PICK k \in Nat : k = Len(ch[n].buf) /\ k <= Granule
      BY <3>2, LenProperties DEF Blocks
    <3>4. Granule \in Nat
      BY GranuleIs
    <3>5. room = P!Least(l, Granule - k)
      BY <1>2, <2>2, <3>1, <3>3
    <3>6. filled = [ch EXCEPT ![n].buf = @ \o SubSeq(data, 1, room)]
      BY <2>2, <3>1
    <3> HIDE DEF room, filled
    <3>7. PICK h \in 0 .. Len(data) : h = room /\ h <= Granule - k
      <4>1. PICK g \in Nat : g = Granule - k
        <5>1. k \in Nat /\ k <= Granule /\ Granule \in Nat
          BY <3>3, <3>4
        <5>2. Granule - k \in Nat
          BY <5>1
        <5> QED BY <5>2
      <4>2. room \in 0 .. l /\ room <= Granule - k
        BY <3>5, <4>1, LeastFacts
      <4> QED BY <1>2, <4>2
    <3>8. PICK u, v \in Seq(Nat) : u = SubSeq(data, 1, h) /\ Len(u) = h
      BY NatCut
    <3>9. Len(ch[n].buf) + Len(u) <= Granule
      <4>1. h \in Nat /\ k + h <= Granule
        BY <1>2, <3>3, <3>4, <3>7
      <4> QED BY <3>3, <3>8, <4>1
    <3>10. /\ [ch EXCEPT ![n].buf = @ \o u] \in Seq(Blocks)
           /\ P!Contents([ch EXCEPT ![n].buf = @ \o u]) = P!Contents(ch) \o u
      BY <3>1, <3>9, LastFilled
    <3> QED BY <1>3, <3>6, <3>7, <3>8, <3>10
  <2> QED BY <2>1, <2>2
<1> HIDE DEF room, filled
<1>5. PICK h \in 0 .. Len(data) : /\ h = room /\ filled \in Seq(Blocks)
                                  /\ P!Contents(filled) = w \o SubSeq(data, 1, h)
  BY <1>4
<1>6. PICK f \in Seq(Blocks) : f = filled /\ P!Contents(f) = w \o SubSeq(data, 1, h)
  BY <1>5
<1>7. PICK u, v \in Seq(Nat) : /\ u = SubSeq(data, 1, h) /\ v = SubSeq(data, h + 1, Len(data))
                               /\ u \o v = data
  BY NatCut
<1>8. PICK d \in Seq(Blocks) : d = Chunks(v) /\ P!Contents(d) = v
  BY ChunksHoldAll
<1>9. P!Contents(f) = w \o u
  BY <1>6, <1>7
<1>10. f \o d \in Seq(Blocks) /\ P!Contents(f \o d) = w \o (u \o v)
  <2>1. f \o d \in Seq(Blocks)
    BY ConcatProperties
  <2>2. P!Contents(f \o d) = P!Contents(f) \o P!Contents(d)
    BY ContentsConcat
  <2>3. (w \o u) \o v = w \o (u \o v)
    BY NatAssociative
  <2> QED BY <1>8, <1>9, <2>1, <2>2, <2>3
<1>11. P!bufchain_add(ch, data) = f \o d
  BY <1>1, <1>5, <1>6, <1>7, <1>8
<1> QED BY <1>3, <1>7, <1>10, <1>11

(*****************************************************************************)
(* The printers.                                                             *)
(*****************************************************************************)
Documents == [Addresses -> [live : BOOLEAN, doc : Seq(Nat)]]
Flushers == [job : Addresses, asleep : BOOLEAN]
Printers(types, handles, devices, threads) ==
    [printer : [type : types, handle : handles, buffer : Seq(Nat), chain : Seq(Blocks), deleted : BOOLEAN],
     jobs : Documents, timer : Int, flushers : threads, device : devices,
     given : Nat, closed : Seq(Nat), crashed : BOOLEAN]
Ports == Printers({"LPT"}, {P!NoJob}, Seq(Nat), {<<>>})
Drivers == Printers({"DRV"}, Addresses \union {P!NoJob}, Seq(Seq(Nat)), Seq(Flushers))
Files == Printers({"FIL"}, {P!NoJob, "file"}, Seq(Nat), {<<>>})
Mute == Printers({"COM", "SHR"}, {P!NoJob}, {<<>>}, {<<>>})

(* What the thread of a port points at is the first of what is queued, until it
   takes it off; what it was written and what is queued are the closed jobs. *)
Threads == [at : {"look", "write", "consume"}, data : Seq(Nat)]
Queued(s) == P!Contents(s.printer.chain)
Ahead(d, w) == \E rest \in Seq(Nat) : w = d \o rest
Pending(w, th) == IF th.at = "consume" THEN Drop(w, Len(th.data)) ELSE w
PortSound(s, th) ==
    /\ th.at # "look" => Ahead(th.data, Queued(s))
    /\ s.closed = s.device \o Pending(Queued(s), th)

(* The open job is the one that is live; what was spooled and its document are
   what was given. *)
Document(s) == IF s.printer.handle = P!NoJob THEN <<>> ELSE s.jobs[s.printer.handle].doc
DriverSound(s) ==
    /\ \A a \in Addresses : s.jobs[a].live <=> a = s.printer.handle
    /\ s.closed = P!FlattenSeq(s.device) \o Document(s)

Good(s, th) ==
    \/ s \in Files \/ s \in Mute
    \/ s \in Ports /\ PortSound(s, th)
    \/ s \in Drivers /\ DriverSound(s)

PrintingInv == thread \in Threads /\ Good(P!State, thread)

LEMMA NoJobIs == P!NoJob \notin Addresses
BY InstancesAssumption DEF P!PrintingAssumption, P!NoJob

(* A document ends: it is spooled, and the next is empty. *)
LEMMA EndDocumentKeeps ==
    ASSUME NEW s \in Drivers, DriverSound(s), NEW a \in Addresses, s.jobs[a].live,
           NEW t, t = P!EndDocument(s, a)
    PROVE  /\ t \in Drivers /\ DriverSound(t) /\ t.printer = s.printer
           /\ t.jobs[a].doc = <<>> /\ t.closed = P!FlattenSeq(t.device)
<1>1. PICK d \in Seq(Nat) : d = s.jobs[a].doc
  BY DEF Drivers, Printers, Documents
<1>2. PICK e \in Seq(Nat) : e = <<>>
  BY EmptySeq
<1>3. PICK v \in Seq(Seq(Nat)) : v = s.device
  BY DEF Drivers, Printers
<1>4. PICK w \in Seq(Seq(Nat)) : w = (IF d = <<>> THEN v ELSE Append(v, d))
  BY AppendProperties
<1>5. PICK j \in Documents : j = [s.jobs EXCEPT ![a].doc = e]
  BY DEF Drivers, Printers, Documents
<1>6. t = [s EXCEPT !.device = w, !.jobs = j]
  BY <1>1, <1>2, <1>3, <1>4, <1>5 DEF P!EndDocument, Drivers, Printers
<1>7. t \in Drivers
  BY <1>6 DEF Drivers, Printers
<1>8. t.printer = s.printer /\ t.jobs = j /\ t.device = w /\ t.closed = s.closed
  BY <1>6 DEF Drivers, Printers
<1>9. /\ j[a].doc = e
      /\ \A b \in Addresses : j[b].live = s.jobs[b].live
  BY <1>5 DEF Drivers, Printers, Documents
<1>10. s.printer.handle = a /\ a # P!NoJob
  BY NoJobIs DEF DriverSound
<1>11. s.closed = P!FlattenSeq(v) \o d
  BY <1>1, <1>3, <1>10 DEF DriverSound, Document
<1>12. PICK f \in Seq(Nat) : f = P!FlattenSeq(v)
  BY FlatType
<1>13. P!FlattenSeq(w) = f \o d
  <2>1. CASE d = <<>>
    BY <1>4, <1>12, <2>1, ConcatEmptySeq
  <2>2. CASE d # <<>>
    BY <1>4, <1>12, <2>2, FlatMore
  <2> QED BY <2>1, <2>2
<1>14. PICK g \in Seq(Nat) : g = P!FlattenSeq(w)
  BY FlatType
<1>15. g \o e = g
  BY <1>2, ConcatEmptySeq
<1>16. Document(t) = e
  BY <1>8, <1>9, <1>10 DEF Document
<1>17. t.closed = g
  BY <1>8, <1>11, <1>12, <1>13, <1>14
<1>18. DriverSound(t)
  BY <1>8, <1>9, <1>14, <1>15, <1>16, <1>17 DEF DriverSound
<1> QED BY <1>2, <1>7, <1>8, <1>9, <1>14, <1>17, <1>18

(* printer_finish_job(): the document ends and there is no job. *)
LEMMA FinishJobKeeps ==
    ASSUME NEW s \in Drivers, DriverSound(s), NEW t, t = P!printer_finish_job(s)
    PROVE  t \in Drivers /\ DriverSound(t) /\ t.printer.handle = P!NoJob
<1>1. CASE s.printer.handle = P!NoJob
  BY <1>1 DEF P!printer_finish_job
<1>2. CASE s.printer.handle # P!NoJob
  <2>1. PICK a \in Addresses : a = s.printer.handle
    BY <1>2 DEF Drivers, Printers
  <2>2. PICK u : u = P!EndDocument(s, a)
    OBVIOUS
  <2>3. s.jobs[a].live
    BY <2>1 DEF DriverSound
  <2>4. /\ u \in Drivers /\ DriverSound(u) /\ u.printer = s.printer
        /\ u.closed = P!FlattenSeq(u.device)
    BY <2>2, <2>3, EndDocumentKeeps
  <2>5. PICK j \in Documents : j = [u.jobs EXCEPT ![a].live = FALSE]
    <3>1. u.jobs \in Documents
      BY <2>4 DEF Drivers, Printers
    <3>2. [u.jobs EXCEPT ![a].live = FALSE] \in Documents
      BY <3>1 DEF Documents
    <3> QED BY <3>2
  <2>6. PICK p \in [type : {"DRV"}, handle : Addresses \union {P!NoJob}, buffer : Seq(Nat),
                    chain : Seq(Blocks), deleted : BOOLEAN] :
           p = [u.printer EXCEPT !.handle = P!NoJob]
    BY <2>4 DEF Drivers, Printers
  <2>7. t = [u EXCEPT !.printer = p, !.jobs = j]
    BY <1>2, <2>1, <2>2, <2>4, <2>5, <2>6 DEF P!printer_finish_job, Drivers, Printers
  <2>8. t \in Drivers
    BY <2>4, <2>7 DEF Drivers, Printers
  <2>9. t.printer = p /\ t.jobs = j /\ t.device = u.device /\ t.closed = u.closed
    BY <2>4, <2>7 DEF Drivers, Printers
  <2>10. p.handle = P!NoJob
    BY <2>4, <2>6 DEF Drivers, Printers
  <2>11. \A b \in Addresses : ~j[b].live
    BY <2>1, <2>4, <2>5 DEF Drivers, Printers, Documents, DriverSound
  <2>12. PICK f \in Seq(Nat) : f = P!FlattenSeq(u.device)
    <3>1. PICK v \in Seq(Seq(Nat)) : v = u.device
      BY <2>4 DEF Drivers, Printers
    <3> QED BY <3>1, FlatType
  <2>13. f \o <<>> = f
    BY ConcatEmptySeq
  <2>14. DriverSound(t)
    BY <2>4, <2>9, <2>10, <2>11, <2>12, <2>13, NoJobIs DEF DriverSound, Document
  <2> QED BY <2>8, <2>9, <2>10, <2>14
<1> QED BY <1>1, <1>2

(* A job may begin on a printer that has none. *)
LEMMA StartJobKeeps ==
    ASSUME NEW s \in Drivers, DriverSound(s), s.printer.handle = P!NoJob, NEW a \in Addresses,
           NEW t, t = P!printer_start_job(s, a)
    PROVE  t \in Drivers /\ DriverSound(t)
<1>1. PICK e \in Seq(Nat) : e = <<>>
  BY EmptySeq
<1>2. PICK r \in [live : BOOLEAN, doc : Seq(Nat)] : r = [live |-> TRUE, doc |-> e]
  OBVIOUS
<1>3. PICK j \in Documents : j = [s.jobs EXCEPT ![a] = r]
  BY DEF Drivers, Printers, Documents
<1>4. PICK p \in [type : {"DRV"}, handle : Addresses \union {P!NoJob}, buffer : Seq(Nat),
                  chain : Seq(Blocks), deleted : BOOLEAN] : p = [s.printer EXCEPT !.handle = a]
  BY DEF Drivers, Printers
<1>5. PICK f \in Flushers : f = [job |-> a, asleep |-> FALSE]
  BY DEF Flushers
<1>6. PICK l \in Seq(Flushers) : l = Append(s.flushers, f)
  <2>1. s.flushers \in Seq(Flushers)
    BY DEF Drivers, Printers
  <2> QED BY <2>1, AppendProperties
<1>7. t = [s EXCEPT !.printer = p, !.jobs = j, !.flushers = l]
  BY <1>1, <1>2, <1>3, <1>4, <1>5, <1>6 DEF P!printer_start_job, Drivers, Printers
<1>8. t \in Drivers
  BY <1>7 DEF Drivers, Printers
<1>9. t.printer = p /\ t.jobs = j /\ t.device = s.device /\ t.closed = s.closed
  BY <1>7 DEF Drivers, Printers
<1>10. p.handle = a /\ a # P!NoJob
  BY <1>4, NoJobIs DEF Drivers, Printers
<1>11. j[a] = r /\ r.live /\ r.doc = e /\ \A b \in Addresses : b # a => j[b] = s.jobs[b]
  BY <1>2, <1>3 DEF Drivers, Printers, Documents
<1>12. DriverSound(t)
  <2>1. \A b \in Addresses : ~s.jobs[b].live
    BY NoJobIs DEF DriverSound
  <2>2. \A b \in Addresses : b # a => ~j[b].live
    BY <1>11, <2>1
  <2>3. \A b \in Addresses : j[b].live <=> b = p.handle
    BY <1>10, <1>11, <2>2
  <2>4. Document(s) = e /\ Document(t) = e
    BY <1>1, <1>9, <1>10, <1>11 DEF Document
  <2> QED BY <1>9, <2>3, <2>4 DEF DriverSound
<1> QED BY <1>8, <1>12

-----------------------------------------------------------------------------
(* The calls keep what is good. *)
Data(s, n) == [i \in 1 .. n |-> s.given + i]

LEMMA GoodTypes ==
    ASSUME NEW s, NEW th, Good(s, th)
    PROVE  /\ s.printer.type = "LPT" => s \in Ports /\ PortSound(s, th)
           /\ s.printer.type = "DRV" => s \in Drivers /\ DriverSound(s)
           /\ s.printer.type = "FIL" => s \in Files
           /\ s.printer.type \in {"COM", "SHR"} => s \in Mute
           /\ s.printer.type \in {"LPT", "DRV", "FIL", "COM", "SHR"}
           /\ s.given \in Nat /\ s.closed \in Seq(Nat)
<1>1. CASE s \in Files
  <2>1. s.printer.type = "FIL" /\ s.given \in Nat /\ s.closed \in Seq(Nat)
    BY <1>1 DEF Files, Printers
  <2> QED BY <1>1, <2>1
<1>2. CASE s \in Ports /\ PortSound(s, th)
  <2>1. s.printer.type = "LPT" /\ s.given \in Nat /\ s.closed \in Seq(Nat)
    BY <1>2 DEF Ports, Printers
  <2> QED BY <1>2, <2>1
<1>3. CASE s \in Drivers /\ DriverSound(s)
  <2>1. s.printer.type = "DRV" /\ s.given \in Nat /\ s.closed \in Seq(Nat)
    BY <1>3 DEF Drivers, Printers
  <2> QED BY <1>3, <2>1
<1>4. CASE s \in Mute
  <2>1. s.printer.type \in {"COM", "SHR"} /\ s.given \in Nat /\ s.closed \in Seq(Nat)
    BY <1>4 DEF Mute, Printers
  <2> QED BY <1>4, <2>1
<1> QED BY <1>1, <1>2, <1>3, <1>4 DEF Good

(* Sequences one behind another. *)
Behind(v, q, b) == (v \o q) \o b = v \o (q \o b)
LEMMA ThreeBehind ==
    ASSUME NEW v \in Seq(Nat), NEW q \in Seq(Nat), NEW b \in Seq(Nat)
    PROVE  Behind(v, q, b)
BY NatAssociative DEF Behind

(* What is added is at the end of what is pending. *)
LEMMA AddedBehind ==
    ASSUME NEW v \in Seq(Nat), NEW q \in Seq(Nat), NEW b \in Seq(Nat),
           NEW s \in Seq(Nat), s = v \o q, NEW l \in Seq(Nat), l = s \o b, NEW r \in Seq(Nat), r = q \o b
    PROVE  l = v \o r
<1>1. Behind(v, q, b)
  BY ThreeBehind
<1> QED BY <1>1 DEF Behind

(* What the thread holds stays the first of a queue that grows, and what is
   added to the queue is added to what is pending. *)
LEMMA AheadMore ==
    ASSUME NEW w \in Seq(Nat), NEW d \in Seq(Nat), Ahead(d, w), NEW b \in Seq(Nat)
    PROVE  /\ Ahead(d, w \o b)
           /\ Len(d) \in 0 .. Len(w)
<1>1. PICK rest \in Seq(Nat) : w = d \o rest
  BY DEF Ahead
<1>2. Behind(d, rest, b)
  BY ThreeBehind
<1>3. PICK more \in Seq(Nat) : more = rest \o b
  BY ConcatProperties
<1>4. Len(w) = Len(d) + Len(rest) /\ Len(rest) \in Nat /\ Len(d) \in Nat
  BY <1>1, ConcatProperties, LenProperties
<1>5. w \o b = d \o more
  BY <1>1, <1>2, <1>3 DEF Behind
<1>6. Len(d) \in 0 .. Len(w)
  BY <1>4
<1> QED BY <1>5, <1>6 DEF Ahead

Grown(w, b, th, z) ==
    /\ th.at # "look" => Ahead(th.data, z)
    /\ Pending(w, th) \in Seq(Nat)
    /\ Pending(z, th) = Pending(w, th) \o b

(* It is behind what the thread holds. *)
LEMMA PendingMore ==
    ASSUME NEW w \in Seq(Nat), NEW th \in Threads, th.at # "look" => Ahead(th.data, w),
           NEW b \in Seq(Nat), NEW z, z = w \o b
    PROVE  Grown(w, b, th, z)
<1>1. PICK d \in Seq(Nat) : d = th.data
  BY DEF Threads
<1>2. PICK k \in Nat : k = Len(d)
  BY LenProperties
<1>3. CASE th.at = "look"
  BY <1>3 DEF Grown, Pending
<1>4. CASE th.at # "look"
  <2>1. Ahead(d, z) /\ k \in 0 .. Len(w)
    BY <1>1, <1>2, <1>4, AheadMore
  <2>2. Drop(w, k) \in Seq(Nat)
    BY <2>1, DropType
  <2>3. Drop(w \o b, k) = Drop(w, k) \o b
    BY <2>1, DropFirst
  <2> QED BY <1>1, <1>2, <2>1, <2>2, <2>3 DEF Grown, Pending
<1> QED BY <1>3, <1>4

(* Steps of a port that leave its queue: the buffer and what was given. *)
LEMMA PortBuffered ==
    ASSUME NEW s \in Ports, NEW th \in Threads, PortSound(s, th), NEW b \in Seq(Nat), NEW g \in Nat,
           NEW t, t = [s EXCEPT !.given = g, !.printer.buffer = b]
    PROVE  Good(t, th)
<1>1. PICK p \in [type : {"LPT"}, handle : {P!NoJob}, buffer : Seq(Nat),
                  chain : Seq(Blocks), deleted : BOOLEAN] : p = [s.printer EXCEPT !.buffer = b]
  BY DEF Ports, Printers
<1>2. t = [s EXCEPT !.given = g, !.printer = p]
  BY <1>1 DEF Ports, Printers
<1>3. t \in Ports
  BY <1>2 DEF Ports, Printers
<1>4. /\ t.printer = p /\ t.device = s.device /\ t.closed = s.closed
      /\ p.chain = s.printer.chain
  BY <1>1, <1>2 DEF Ports, Printers
<1> QED BY <1>3, <1>4 DEF Good, PortSound, Queued

(* print_close() of a port: the buffer is queued. *)
QueuedStep(s, b, c, e, l, t) ==
    /\ b = s.printer.buffer /\ l = s.closed \o b /\ c = P!bufchain_add(s.printer.chain, b)
    /\ t = [s EXCEPT !.printer.chain = c, !.printer.buffer = e, !.closed = l]

LEMMA PortQueued ==
    ASSUME NEW s \in Ports, NEW th \in Threads, PortSound(s, th), NEW e \in Seq(Nat),
           NEW b \in Seq(Nat), NEW l \in Seq(Nat), NEW c \in Seq(Blocks),
           NEW t, QueuedStep(s, b, c, e, l, t)
    PROVE  Good(t, th)
<1> USE DEF QueuedStep
<1>1. PICK p \in [type : {"LPT"}, handle : {P!NoJob}, buffer : Seq(Nat),
                  chain : Seq(Blocks), deleted : BOOLEAN] :
         p = [s.printer EXCEPT !.chain = c, !.buffer = e]
  BY DEF Ports, Printers
<1>2. t = [s EXCEPT !.printer = p, !.closed = l]
  BY <1>1 DEF Ports, Printers
<1>3. t \in Ports
  BY <1>2 DEF Ports, Printers
<1>4. /\ t.printer = p /\ t.device = s.device /\ t.closed = l
      /\ p.chain = c
  BY <1>1, <1>2 DEF Ports, Printers
<1>5. PICK w \in Seq(Nat) : w = Queued(s)
  <2>1. s.printer.chain \in Seq(Blocks)
    BY DEF Ports, Printers
  <2> QED BY <2>1, ContentsType DEF Queued
<1>6. Queued(t) = w \o b
  <2>1. PICK ch \in Seq(Blocks) : ch = s.printer.chain
    BY DEF Ports, Printers
  <2>2. P!Contents(c) = P!Contents(ch) \o b
    BY <2>1, AddFacts
  <2> QED BY <1>4, <1>5, <2>1, <2>2 DEF Queued
<1>7. Grown(w, b, th, Queued(t))
  BY <1>5, <1>6, PendingMore DEF PortSound
<1>8. PICK q \in Seq(Nat) : q = Pending(w, th)
  BY <1>7 DEF Grown
<1>9. PICK r \in Seq(Nat) : r = q \o b
  BY ConcatProperties
<1>10. PICK v \in Seq(Nat) : v = s.device
  BY DEF Ports, Printers
<1>11. l = v \o r
  <2>1. PICK c0 \in Seq(Nat) : c0 = s.closed
    BY DEF Ports, Printers
  <2>2. c0 = v \o q
    BY <1>5, <1>8, <1>10, <2>1 DEF PortSound
  <2>3. l = c0 \o b
    BY <2>1
  <2>4. Behind(v, q, b)
    BY ThreeBehind
  <2> QED BY <1>9, <2>2, <2>3, <2>4 DEF Behind
<1>12. Pending(Queued(t), th) = r
  BY <1>7, <1>8, <1>9 DEF Grown
<1>13. th.at # "look" => Ahead(th.data, Queued(t))
  BY <1>7 DEF Grown
<1> QED BY <1>3, <1>4, <1>10, <1>11, <1>12, <1>13 DEF Good, PortSound

(* Opening a printer, of either kind. *)
LEMMA OpenKeeps ==
    ASSUME NEW s, NEW th \in Threads, Good(s, th), NEW t \in P!print_open(s)
    PROVE  Good(t, th)
<1>1. CASE s.printer.type = "LPT"
  <2>1. s \in Ports /\ PortSound(s, th)
    BY <1>1, GoodTypes
  <2>2. PICK e \in Seq(Nat) : e = <<>>
    BY EmptySeq
  <2>3. PICK g \in Nat : g = s.given
    BY GoodTypes
  <2>4. t = [s EXCEPT !.printer = [@ EXCEPT !.buffer = e]]
    BY <1>1, <2>2 DEF P!print_open
  <2>5. t = [s EXCEPT !.given = g, !.printer.buffer = e]
    BY <2>1, <2>3, <2>4 DEF Ports, Printers
  <2> QED BY <2>1, <2>5, PortBuffered
<1>2. CASE s.printer.type = "DRV"
  <2>1. s \in Drivers /\ DriverSound(s)
    BY <1>2, GoodTypes
  <2>2. PICK f : f = P!printer_finish_job(s)
    OBVIOUS
  <2>3. f \in Drivers /\ DriverSound(f) /\ f.printer.handle = P!NoJob
    BY <2>1, <2>2, FinishJobKeeps
  <2>4. PICK a \in Addresses : t = P!printer_start_job(f, a)
    BY <1>2, <2>2 DEF P!print_open
  <2> QED BY <2>3, <2>4, StartJobKeeps DEF Good
<1>3. CASE s.printer.type = "FIL"
  <2>1. s \in Files
    BY <1>3, GoodTypes
  <2>2. PICK e \in Seq(Nat) : e = <<>>
    BY EmptySeq
  <2>3. PICK p \in [type : {"FIL"}, handle : {P!NoJob, "file"}, buffer : Seq(Nat),
                    chain : Seq(Blocks), deleted : BOOLEAN] : p = [s.printer EXCEPT !.handle = "file"]
    <3>1. [s.printer EXCEPT !.handle = "file"] \in
             [type : {"FIL"}, handle : {P!NoJob, "file"}, buffer : Seq(Nat),
              chain : Seq(Blocks), deleted : BOOLEAN]
      BY <2>1 DEF Files, Printers
    <3> QED BY <3>1
  <2>4. t = s \/ t = [s EXCEPT !.printer = [@ EXCEPT !.handle = "file"], !.device = <<>>]
    BY <1>3 DEF P!print_open
  <2>5. [s EXCEPT !.printer = [@ EXCEPT !.handle = "file"], !.device = <<>>] = [s EXCEPT !.printer = p, !.device = e]
    BY <2>1, <2>2, <2>3 DEF Files, Printers
  <2>6. [s EXCEPT !.printer = p, !.device = e] \in Files
    BY <2>1 DEF Files, Printers
  <2> QED BY <2>1, <2>4, <2>5, <2>6 DEF Good
<1>4. CASE s.printer.type \in {"COM", "SHR"}
  <2>1. t = s
    BY <1>4 DEF P!print_open
  <2> QED BY <2>1
<1> QED BY <1>1, <1>2, <1>3, <1>4, GoodTypes

(* Data for it. *)
LEMMA DataKeeps ==
    ASSUME NEW s, NEW th \in Threads, Good(s, th), NEW n \in Nat, NEW t, t = P!print_data(s, n)
    PROVE  Good(t, th)
<1>1. s.given \in Nat /\ s.given + n \in Nat
  BY GoodTypes
<1>2. PICK d \in Seq(Nat) : d = Data(s, n)
  <2>1. Data(s, n) \in [1 .. n -> Nat]
    BY <1>1 DEF Data
  <2> QED BY <2>1
<1>3. PICK g \in Nat : g = s.given + n
  BY <1>1
<1>4. CASE s.printer.type = "LPT"
  <2>1. s \in Ports /\ PortSound(s, th)
    BY <1>4, GoodTypes
  <2>2. PICK b \in Seq(Nat) : b = s.printer.buffer \o d
    <3>1. s.printer.buffer \in Seq(Nat)
      BY <2>1 DEF Ports, Printers
    <3> QED BY <3>1, ConcatProperties
  <2>3. t = [s EXCEPT !.given = g, !.printer.buffer = b]
    <3>1. t = [[s EXCEPT !.given = @ + n] EXCEPT !.printer.buffer = @ \o d]
      BY <1>2, <1>4 DEF P!print_data, Data
    <3>2. [s EXCEPT !.given = @ + n] = [s EXCEPT !.given = g]
      BY <1>3
    <3>3. [s EXCEPT !.given = g].printer.buffer = s.printer.buffer
      BY <2>1 DEF Ports, Printers
    <3> QED BY <2>2, <3>1, <3>2, <3>3
  <2> QED BY <2>1, <2>3, PortBuffered
<1>5. CASE s.printer.type = "DRV"
  <2>1. s \in Drivers /\ DriverSound(s)
    BY <1>5, GoodTypes
  <2>2. CASE s.printer.handle = P!NoJob
    <3>1. t = [s EXCEPT !.given = g]
      BY <1>3, <1>5, <2>2 DEF P!print_data
    <3>2. t \in Drivers
      BY <2>1, <3>1 DEF Drivers, Printers
    <3>3. /\ t.printer = s.printer /\ t.jobs = s.jobs /\ t.device = s.device /\ t.closed = s.closed
      BY <2>1, <3>1 DEF Drivers, Printers
    <3> QED BY <2>1, <3>2, <3>3 DEF Good, DriverSound, Document
  <2>3. CASE s.printer.handle # P!NoJob
    <3>1. PICK a \in Addresses : a = s.printer.handle
      BY <2>1, <2>3 DEF Drivers, Printers
    <3>2. PICK x \in Seq(Nat) : x = s.jobs[a].doc
      BY <2>1 DEF Drivers, Printers, Documents
    <3>3. PICK y \in Seq(Nat) : y = x \o d
      BY ConcatProperties
    <3>4. PICK c \in Seq(Nat) : c = s.closed
      BY GoodTypes
    <3>5. PICK e \in Seq(Nat) : e = c \o d
      BY ConcatProperties
    <3>6. s.jobs \in Documents
      BY <2>1 DEF Drivers, Printers
    <3>7. PICK j \in Documents : j = [s.jobs EXCEPT ![a].doc = y]
      <4>1. [s.jobs EXCEPT ![a].doc = y] \in Documents
        BY <3>6 DEF Documents
      <4> QED BY <4>1
    <3>8. PICK q \in Int : q = Period
      BY InstancesAssumption DEF P!PrintingAssumption
    <3>9. t = [s EXCEPT !.given = g, !.jobs = j, !.timer = q, !.closed = e]
      <4>1. t = [[s EXCEPT !.given = @ + n] EXCEPT !.jobs[a].doc = @ \o d, !.timer = Period,
                                                   !.closed = @ \o d]
        BY <1>2, <1>5, <2>3, <3>1 DEF P!print_data, Data
      <4>2. PICK u : u = [s EXCEPT !.given = g]
        OBVIOUS
      <4>3. t = [u EXCEPT !.jobs[a].doc = @ \o d, !.timer = q, !.closed = @ \o d]
        BY <1>3, <3>8, <4>1, <4>2
      <4>4. u.jobs = s.jobs /\ u.closed = c /\ u.jobs[a].doc = x
        BY <2>1, <3>2, <3>4, <4>2 DEF Drivers, Printers
      <4>5. t = [u EXCEPT !.jobs[a].doc = y, !.timer = q, !.closed = e]
        BY <3>3, <3>5, <4>3, <4>4
      <4>6. t = [u EXCEPT !.jobs = j, !.timer = q, !.closed = e]
        BY <3>7, <4>4, <4>5
      <4> QED BY <4>2, <4>6
    <3>10. t \in Drivers
      BY <2>1, <3>9 DEF Drivers, Printers
    <3>11. t.printer = s.printer /\ t.jobs = j /\ t.device = s.device /\ t.closed = e
      BY <2>1, <3>9 DEF Drivers, Printers
    <3>12. j[a].doc = y /\ \A b \in Addresses : j[b].live = s.jobs[b].live
      BY <3>6, <3>7 DEF Documents
    <3>13. Document(s) = x /\ Document(t) = y
      BY <2>3, <3>1, <3>2, <3>11, <3>12 DEF Document
    <3>14. PICK f \in Seq(Nat) : f = P!FlattenSeq(s.device)
      <4>1. PICK v \in Seq(Seq(Nat)) : v = s.device
        BY <2>1 DEF Drivers, Printers
      <4> QED BY <4>1, FlatType
    <3>15. c = f \o x
      BY <2>1, <3>4, <3>13, <3>14 DEF DriverSound
    <3>17. e = f \o y
      BY <3>3, <3>5, <3>15, AddedBehind
    <3>18. DriverSound(t)
      BY <2>1, <3>11, <3>12, <3>13, <3>14, <3>17 DEF DriverSound
    <3> QED BY <3>10, <3>18 DEF Good
  <2> QED BY <2>2, <2>3
<1>6. CASE s.printer.type = "FIL"
  <2>1. s \in Files
    BY <1>6, GoodTypes
  <2>2. PICK v \in Seq(Nat) : v = s.device \o d
    <3>1. s.device \in Seq(Nat)
      BY <2>1 DEF Files, Printers
    <3> QED BY <3>1, ConcatProperties
  <2>3. t = [s EXCEPT !.given = g] \/ t = [s EXCEPT !.given = g, !.device = v]
    BY <1>2, <1>3, <1>6, <2>1, <2>2 DEF P!print_data, Data, Files, Printers
  <2>4. t \in Files
    BY <2>1, <2>3 DEF Files, Printers
  <2> QED BY <2>4 DEF Good
<1>7. CASE s.printer.type \in {"COM", "SHR"}
  <2>1. s \in Mute
    BY <1>7, GoodTypes
  <2>2. t = [s EXCEPT !.given = g]
    BY <1>3, <1>7 DEF P!print_data
  <2>3. t \in Mute
    BY <2>1, <2>2 DEF Mute, Printers
  <2> QED BY <2>3 DEF Good
<1> QED BY <1>4, <1>5, <1>6, <1>7, GoodTypes

(* Closing it. *)
LEMMA CloseKeeps ==
    ASSUME NEW s, NEW th \in Threads, Good(s, th), NEW t, t = P!print_close(s)
    PROVE  Good(t, th)
<1>1. CASE s.printer.type = "LPT"
  <2>1. s \in Ports /\ PortSound(s, th)
    BY <1>1, GoodTypes
  <2>2. PICK e \in Seq(Nat) : e = <<>>
    BY EmptySeq
  <2>3. PICK b \in Seq(Nat) : b = s.printer.buffer
    BY <2>1 DEF Ports, Printers
  <2>4. PICK ch \in Seq(Blocks) : ch = s.printer.chain
    BY <2>1 DEF Ports, Printers
  <2>5. PICK c \in Seq(Blocks) : c = P!bufchain_add(s.printer.chain, b)
    BY <2>4, AddFacts
  <2>6. PICK l \in Seq(Nat) : l = s.closed \o b
    <3>1. s.closed \in Seq(Nat)
      BY GoodTypes
    <3> QED BY <3>1, ConcatProperties
  <2>7. t = [s EXCEPT !.printer.chain = c, !.printer.buffer = e, !.closed = l]
    BY <1>1, <2>1, <2>2, <2>3, <2>5, <2>6 DEF P!print_close
  <2>8. QueuedStep(s, b, c, e, l, t)
    BY <2>3, <2>5, <2>6, <2>7 DEF QueuedStep
  <2> QED BY <2>1, <2>8, PortQueued
<1>2. CASE s.printer.type = "DRV"
  <2>1. s \in Drivers /\ DriverSound(s) /\ t = P!printer_finish_job(s)
    BY <1>2, GoodTypes DEF P!print_close
  <2> QED BY <2>1, FinishJobKeeps DEF Good
<1>3. CASE s.printer.type = "FIL"
  <2>1. s \in Files
    BY <1>3, GoodTypes
  <2>2. t = [s EXCEPT !.crashed = TRUE] \/ t = [s EXCEPT !.printer = [@ EXCEPT !.handle = P!NoJob]]
    BY <1>3 DEF P!print_close
  <2>3. [s EXCEPT !.crashed = TRUE] \in Files
    BY <2>1 DEF Files, Printers
  <2>4. [s.printer EXCEPT !.handle = P!NoJob] \in
           [type : {"FIL"}, handle : {P!NoJob, "file"}, buffer : Seq(Nat),
            chain : Seq(Blocks), deleted : BOOLEAN]
    BY <2>1 DEF Files, Printers
  <2>5. [s EXCEPT !.printer = [@ EXCEPT !.handle = P!NoJob]] \in Files
    BY <2>1, <2>4 DEF Files, Printers
  <2> QED BY <2>2, <2>3, <2>5 DEF Good
<1>4. CASE s.printer.type \in {"COM", "SHR"}
  BY <1>4 DEF P!print_close
<1> QED BY <1>1, <1>2, <1>3, <1>4, GoodTypes


-----------------------------------------------------------------------------
(* The thread of a port. *)

(* The first block is the first of what is queued. *)
LEMMA PrefixAhead ==
    ASSUME NEW ch \in Seq(Blocks), P!bufchain_size(ch) > 0
    PROVE  P!bufchain_prefix(ch) \in Seq(Nat) /\ Ahead(P!bufchain_prefix(ch), P!Contents(ch))
<1>1. PICK m \in Nat : m = Len(ch)
  BY LenProperties
<1>2. m # 0
  <2>1. SUFFICES ASSUME m = 0 PROVE FALSE
    OBVIOUS
  <2>2. ch = <<>>
    BY <1>1, <2>1, EmptySeq
  <2>3. P!Contents(ch) = <<>>
    BY <2>2, ContentsEmpty
  <2> QED BY <2>3 DEF P!bufchain_size
<1>3. PICK f \in 1 .. Len(ch) : f = 1
  BY <1>1, <1>2
<1>4. \E a, o, r, z \in Seq(Blocks) : Parts(ch, f, a, o, r, z)
  BY SplitAt
<1>5. PICK a \in Seq(Blocks), o \in Seq(Blocks), r \in Seq(Blocks), z \in Seq(Blocks) :
         Parts(ch, f, a, o, r, z)
  BY <1>4
<1>6. PICK b \in Blocks : b = ch[f]
  BY ElementOfSeq
<1>7. a = <<>>
  <2>1. SubSeq(ch, 1, 0) = <<>>
    BY SubSeqEmpty
  <2> QED BY <1>3, <1>5, <2>1 DEF Parts
<1>8. ch = o \o r
  <2>1. a \o z = z
    BY <1>7, ConcatEmptySeq
  <2> QED BY <1>5, <2>1 DEF Parts
<1>9. o = <<b>>
  BY <1>5, <1>6 DEF Parts
<1>10. PICK d \in Seq(Nat) : d = P!Left(b)
  BY LeftFacts
<1>11. PICK y \in Seq(Nat) : y = P!Contents(r)
  BY ContentsType
<1>12. P!Contents(o) = d
  BY <1>9, <1>10, ContentsOne
<1>13. P!Contents(o \o r) = P!Contents(o) \o P!Contents(r)
  BY ContentsConcat
<1>14. P!bufchain_prefix(ch) = d
  BY <1>3, <1>6, <1>10 DEF P!bufchain_prefix
<1> QED BY <1>8, <1>11, <1>12, <1>13, <1>14 DEF Ahead

(* The thread takes the start of the queue. *)
LEMMA LookKeeps ==
    ASSUME NEW s \in Ports, NEW th \in Threads, PortSound(s, th), th.at = "look",
           P!bufchain_size(s.printer.chain) > 0,
           NEW u, u = [at |-> "write", data |-> P!bufchain_prefix(s.printer.chain)]
    PROVE  u \in Threads /\ PortSound(s, u)
<1>1. PICK ch \in Seq(Blocks) : ch = s.printer.chain
  BY DEF Ports, Printers
<1>2. PICK d \in Seq(Nat) : d = P!bufchain_prefix(ch)
  BY <1>1, PrefixAhead
<1>3. Ahead(d, P!Contents(ch))
  BY <1>1, <1>2, PrefixAhead
<1>4. u = [at |-> "write", data |-> d]
  BY <1>1, <1>2
<1>5. u \in Threads /\ u.at = "write" /\ u.data = d
  BY <1>4 DEF Threads
<1> QED BY <1>1, <1>3, <1>5 DEF PortSound, Queued, Pending

(* What is written is no longer pending. *)
LEMMA WriteKeeps ==
    ASSUME NEW s \in Ports, NEW th \in Threads, PortSound(s, th), th.at = "write",
           NEW t, t = [s EXCEPT !.device = s.device \o th.data],
           NEW u, u = [th EXCEPT !.at = "consume"]
    PROVE  u \in Threads /\ t \in Ports /\ PortSound(t, u)
<1>1. PICK d \in Seq(Nat) : d = th.data
  BY DEF Threads
<1>2. PICK w \in Seq(Nat) : w = Queued(s)
  <2>1. s.printer.chain \in Seq(Blocks)
    BY DEF Ports, Printers
  <2> QED BY <2>1, ContentsType DEF Queued
<1>3. PICK v \in Seq(Nat) : v = s.device
  BY DEF Ports, Printers
<1>4. PICK z \in Seq(Nat) : z = v \o d
  BY ConcatProperties
<1>5. t = [s EXCEPT !.device = z]
  BY <1>1, <1>3, <1>4
<1>6. t \in Ports /\ t.printer = s.printer /\ t.closed = s.closed /\ t.device = z
  BY <1>5 DEF Ports, Printers
<1>7. u \in Threads /\ u.at = "consume" /\ u.data = d
  BY <1>1 DEF Threads
<1>8. Ahead(d, w)
  BY <1>1, <1>2 DEF PortSound
<1>9. PICK rest \in Seq(Nat) : w = d \o rest
  BY <1>8 DEF Ahead
<1>10. Drop(w, Len(d)) = rest
  <2>1. PICK k \in Nat : k = Len(d)
    BY LenProperties
  <2>2. k >= Len(d) /\ k - Len(d) = 0
    BY <2>1
  <2>3. Drop(d \o rest, k) = Drop(rest, k - Len(d))
    BY <2>2, DropBehind
  <2> QED BY <1>9, <2>1, <2>2, <2>3, DropNone
<1>11. s.closed = v \o w
  BY <1>2, <1>3 DEF PortSound, Pending
<1>12. Behind(v, d, rest)
  BY ThreeBehind
<1>13. t.closed = z \o rest
  BY <1>4, <1>6, <1>9, <1>11, <1>12 DEF Behind
<1>14. Queued(t) = w
  BY <1>2, <1>6 DEF Queued
<1>15. Pending(w, u) = rest
  BY <1>7, <1>10 DEF Pending
<1> QED BY <1>6, <1>7, <1>8, <1>13, <1>14, <1>15 DEF PortSound

(* What was written is taken off the queue. *)
LEMMA ConsumeKeeps ==
    ASSUME NEW s \in Ports, NEW th \in Threads, PortSound(s, th), th.at = "consume",
           NEW c, c = P!bufchain_consume(s.printer.chain, Len(th.data)),
           NEW t, t = [s EXCEPT !.printer = [s.printer EXCEPT !.chain = c]],
           NEW u, u = [at |-> "look", data |-> <<>>]
    PROVE  u \in Threads /\ t \in Ports /\ PortSound(t, u)
<1>1. PICK ch \in Seq(Blocks) : ch = s.printer.chain
  BY DEF Ports, Printers
<1>2. PICK k \in Nat : k = Len(th.data)
  <2>1. PICK d \in Seq(Nat) : d = th.data
    BY DEF Threads
  <2> QED BY <2>1, LenProperties
<1>3. c = P!bufchain_consume(ch, k)
  BY <1>1, <1>2
<1>4. c \in Seq(Blocks) /\ P!Contents(c) = Drop(P!Contents(ch), k)
  BY <1>3, ConsumeFacts
<1>5. PICK p \in [type : {"LPT"}, handle : {P!NoJob}, buffer : Seq(Nat),
                  chain : Seq(Blocks), deleted : BOOLEAN] : p = [s.printer EXCEPT !.chain = c]
  BY <1>4 DEF Ports, Printers
<1>6. t = [s EXCEPT !.printer = p]
  BY <1>5
<1>7. /\ t \in Ports /\ t.printer = p /\ t.closed = s.closed /\ t.device = s.device
      /\ p.chain = c
  BY <1>5, <1>6 DEF Ports, Printers
<1>8. u \in Threads /\ u.at = "look"
  <2>1. PICK e \in Seq(Nat) : e = <<>>
    BY EmptySeq
  <2>2. u = [at |-> "look", data |-> e]
    BY <2>1
  <2> QED BY <2>2 DEF Threads
<1> QED BY <1>1, <1>2, <1>4, <1>7, <1>8 DEF PortSound, Queued, Pending


-----------------------------------------------------------------------------
(* The threads of the jobs, and the ends of the process and of the printer. *)
LEMMA SameDriver ==
    ASSUME NEW s \in Drivers, DriverSound(s), NEW t \in Drivers, t.closed = s.closed,
           t.device = s.device, t.jobs = s.jobs, t.printer.handle = s.printer.handle
    PROVE  DriverSound(t)
BY DEF DriverSound, Document

(* Only these fields of a port matter. *)
LEMMA SamePort ==
    ASSUME NEW s \in Ports, NEW th \in Threads, PortSound(s, th), NEW t \in Ports,
           t.closed = s.closed, t.device = s.device, t.printer.chain = s.printer.chain
    PROVE  PortSound(t, th)
BY DEF PortSound, Queued

(* Neither a crash nor the freeing of the printer changes what is queued or live. *)
LEMMA CrashKeeps ==
    ASSUME NEW s, NEW th \in Threads, Good(s, th), NEW t, t = [s EXCEPT !.crashed = TRUE]
    PROVE  Good(t, th)
<1>1. CASE s \in Files
  BY <1>1 DEF Files, Printers, Good
<1>2. CASE s \in Ports /\ PortSound(s, th)
  <2>1. t \in Ports /\ t.closed = s.closed /\ t.device = s.device /\ t.printer = s.printer
    BY <1>2 DEF Ports, Printers
  <2> QED BY <1>2, <2>1, SamePort DEF Good
<1>3. CASE s \in Drivers /\ DriverSound(s)
  <2>1. /\ t \in Drivers /\ t.closed = s.closed /\ t.device = s.device /\ t.printer = s.printer
        /\ t.jobs = s.jobs
    BY <1>3 DEF Drivers, Printers
  <2> QED BY <1>3, <2>1, SameDriver DEF Good
<1>4. CASE s \in Mute
  BY <1>4 DEF Mute, Printers, Good
<1> QED BY <1>1, <1>2, <1>3, <1>4 DEF Good

LEMMA DeletedKeeps ==
    ASSUME NEW s, NEW th \in Threads, Good(s, th),
           NEW t, t = [s EXCEPT !.printer = [s.printer EXCEPT !.deleted = TRUE]]
    PROVE  Good(t, th)
<1>1. CASE s \in Files
  <2>1. [s.printer EXCEPT !.deleted = TRUE] \in
           [type : {"FIL"}, handle : {P!NoJob, "file"}, buffer : Seq(Nat),
            chain : Seq(Blocks), deleted : BOOLEAN]
    BY <1>1 DEF Files, Printers
  <2> QED BY <1>1, <2>1 DEF Files, Printers, Good
<1>2. CASE s \in Ports /\ PortSound(s, th)
  <2>1. PICK p \in [type : {"LPT"}, handle : {P!NoJob}, buffer : Seq(Nat),
                    chain : Seq(Blocks), deleted : BOOLEAN] : p = [s.printer EXCEPT !.deleted = TRUE]
    BY <1>2 DEF Ports, Printers
  <2>2. t = [s EXCEPT !.printer = p]
    BY <2>1
  <2>3. t \in Ports /\ t.closed = s.closed /\ t.device = s.device /\ t.printer = p
    BY <1>2, <2>2 DEF Ports, Printers
  <2>4. p.chain = s.printer.chain
    BY <1>2, <2>1 DEF Ports, Printers
  <2> QED BY <1>2, <2>3, <2>4, SamePort DEF Good
<1>3. CASE s \in Drivers /\ DriverSound(s)
  <2>1. PICK p \in [type : {"DRV"}, handle : Addresses \union {P!NoJob}, buffer : Seq(Nat),
                    chain : Seq(Blocks), deleted : BOOLEAN] : p = [s.printer EXCEPT !.deleted = TRUE]
    BY <1>3 DEF Drivers, Printers
  <2>2. t = [s EXCEPT !.printer = p]
    BY <2>1
  <2>3. /\ t \in Drivers /\ t.closed = s.closed /\ t.device = s.device /\ t.printer = p
        /\ t.jobs = s.jobs
    BY <1>3, <2>2 DEF Drivers, Printers
  <2>4. p.handle = s.printer.handle
    BY <1>3, <2>1 DEF Drivers, Printers
  <2> QED BY <1>3, <2>3, <2>4, SameDriver DEF Good
<1>4. CASE s \in Mute
  <2>1. [s.printer EXCEPT !.deleted = TRUE] \in
           [type : {"COM", "SHR"}, handle : {P!NoJob}, buffer : Seq(Nat),
            chain : Seq(Blocks), deleted : BOOLEAN]
    BY <1>4 DEF Mute, Printers
  <2> QED BY <1>4, <2>1 DEF Mute, Printers, Good
<1> QED BY <1>1, <1>2, <1>3, <1>4 DEF Good

(* Only a Windows printer has threads for its jobs; one dozes or wakes. *)
LEMMA FlusherKeeps ==
    ASSUME NEW s, NEW th \in Threads, Good(s, th), NEW i \in DOMAIN s.flushers, NEW x \in BOOLEAN,
           NEW z \in Int,
           NEW t, t = [s EXCEPT !.timer = z, !.flushers = [s.flushers EXCEPT ![i].asleep = x]]
    PROVE  t \in Drivers /\ DriverSound(t) /\ s.flushers[i].job \in Addresses
<1>1. s \in Drivers /\ DriverSound(s)
  <2>1. CASE s \in Files \/ s \in Ports \/ s \in Mute
    <3>1. s.flushers = <<>>
      BY <2>1 DEF Files, Ports, Mute, Printers
    <3> QED BY <3>1
  <2> QED BY <2>1 DEF Good
<1>2. PICK v \in Seq(Flushers) : v = s.flushers
  BY <1>1 DEF Drivers, Printers
<1>3. i \in 1 .. Len(v)
  BY <1>2, LenProperties
<1>4. PICK b \in Flushers : b = v[i]
  BY <1>3, ElementOfSeq
<1>5. PICK y \in Flushers : y = [b EXCEPT !.asleep = x]
  BY DEF Flushers
<1>6. PICK l \in Seq(Flushers) : l = [v EXCEPT ![i] = y]
  BY <1>3, ExceptSeq
<1>7. t = [s EXCEPT !.timer = z, !.flushers = l]
  BY <1>2, <1>4, <1>5, <1>6
<1>8. /\ t \in Drivers /\ t.closed = s.closed /\ t.device = s.device /\ t.printer = s.printer
      /\ t.jobs = s.jobs
  BY <1>1, <1>7 DEF Drivers, Printers
<1>9. s.flushers[i].job \in Addresses
  BY <1>2, <1>4 DEF Flushers
<1> QED BY <1>1, <1>8, <1>9, SameDriver

(* printer_flush_data(), of a job that is open or was freed. *)
LEMMA DocumentFlushKeeps ==
    ASSUME NEW s \in Drivers, DriverSound(s), NEW th \in Threads, NEW a \in Addresses,
           NEW t \in P!printer_flush_data(s, a)
    PROVE  Good(t, th)
<1>1. CASE s.jobs[a].live
  <2>1. t = P!EndDocument(s, a)
    BY <1>1 DEF P!printer_flush_data
  <2> QED BY <1>1, <2>1, EndDocumentKeeps DEF Good
<1>2. CASE ~s.jobs[a].live
  <2>1. t = s \/ t = [s EXCEPT !.crashed = TRUE]
    BY <1>2 DEF P!printer_flush_data
  <2>2. Good(s, th)
    BY DEF Good
  <2> QED BY <2>1, <2>2, CrashKeeps
<1> QED BY <1>1, <1>2


-----------------------------------------------------------------------------
(* The actions. *)
LEMMA StateIs ==
    ASSUME NEW th, NEW t, Good(t, th), P!Become(t)
    PROVE  P!State' = t
<1>1. CASE t \in Files
  BY <1>1 DEF P!State, P!Become, Files, Printers
<1>2. CASE t \in Ports
  BY <1>2 DEF P!State, P!Become, Ports, Printers
<1>3. CASE t \in Drivers
  BY <1>3 DEF P!State, P!Become, Drivers, Printers
<1>4. CASE t \in Mute
  BY <1>4 DEF P!State, P!Become, Mute, Printers
<1> QED BY <1>1, <1>2, <1>3, <1>4 DEF Good

(* A step to what is good, of a thread that does not move. *)
LEMMA Landed ==
    ASSUME PrintingInv, NEW t, Good(t, thread), P!Become(t), UNCHANGED thread
    PROVE  PrintingInv'
<1>1. P!State' = t
  BY StateIs
<1> QED BY <1>1 DEF PrintingInv

(* The printer is set up. *)
LEMMA PrintSetupKeeps ==
    ASSUME PrintingInv, P!Setup
    PROVE  PrintingInv'
<1>1. PICK t : t \in P!print_open(P!State) /\ P!Become(t)
  BY DEF P!Setup
<1>2. PICK s : s = P!State
  OBVIOUS
<1>3. PICK th \in Threads : th = thread
  BY DEF PrintingInv
<1>4. Good(s, th) /\ t \in P!print_open(s)
  BY <1>1, <1>2, <1>3 DEF PrintingInv
<1>5. Good(t, th)
  BY <1>4, OpenKeeps
<1>6. UNCHANGED thread
  BY DEF P!Setup
<1> QED BY <1>1, <1>3, <1>5, <1>6, Landed

(* Data is flushed to it. *)
LEMMA PrintFlushKeeps ==
    ASSUME PrintingInv, P!Flush
    PROVE  PrintingInv'
<1>1. PICK n \in 1 .. P!Least(2, P!BytesLeft) : P!Become(P!print_data(P!State, n))
  BY DEF P!Flush
<1>2. PICK s : s = P!State
  OBVIOUS
<1>3. PICK th \in Threads : th = thread
  BY DEF PrintingInv
<1>4. PICK t : t = P!print_data(s, n)
  OBVIOUS
<1>5. n \in Nat
  OBVIOUS
<1>6. Good(s, th)
  BY <1>2, <1>3 DEF PrintingInv
<1>7. Good(t, th)
  BY <1>4, <1>5, <1>6, DataKeeps
<1>8. P!Become(t) /\ UNCHANGED thread
  BY <1>1, <1>2, <1>4 DEF P!Flush
<1> QED BY <1>3, <1>7, <1>8, Landed

(* The printing ends. *)
LEMMA PrintFinishKeeps ==
    ASSUME PrintingInv, P!Finish
    PROVE  PrintingInv'
<1>1. PICK s : s = P!State
  OBVIOUS
<1>2. PICK th \in Threads : th = thread
  BY DEF PrintingInv
<1>3. PICK t : t = P!print_close(s)
  OBVIOUS
<1>4. Good(s, th)
  BY <1>1, <1>2 DEF PrintingInv
<1>5. Good(t, th)
  BY <1>3, <1>4, CloseKeeps
<1>6. P!Become(t) /\ UNCHANGED thread
  BY <1>1, <1>3 DEF P!Finish
<1> QED BY <1>2, <1>5, <1>6, Landed

(* The screen is printed. *)
LEMMA PrintScreenKeeps ==
    ASSUME PrintingInv, P!PrintScreen
    PROVE  PrintingInv'
<1>1. PICK u : u \in P!print_open(P!State) /\ P!Become(P!print_close(P!print_data(u, 1)))
  BY DEF P!PrintScreen
<1>2. PICK s : s = P!State
  OBVIOUS
<1>3. PICK th \in Threads : th = thread
  BY DEF PrintingInv
<1>4. PICK n \in Nat : n = 1
  OBVIOUS
<1>5. PICK v : v = P!print_data(u, n)
  OBVIOUS
<1>6. PICK t : t = P!print_close(v)
  OBVIOUS
<1>7. Good(s, th) /\ u \in P!print_open(s)
  BY <1>1, <1>2, <1>3 DEF PrintingInv
<1>8. Good(u, th)
  BY <1>7, OpenKeeps
<1>9. Good(v, th)
  BY <1>5, <1>8, DataKeeps
<1>10. Good(t, th)
  BY <1>6, <1>9, CloseKeeps
<1>11. P!Become(t) /\ UNCHANGED thread
  BY <1>1, <1>4, <1>5, <1>6 DEF P!PrintScreen
<1> QED BY <1>3, <1>10, <1>11, Landed

(* The session frees it. *)
LEMMA PrintDeleteKeeps ==
    ASSUME PrintingInv, P!Delete
    PROVE  PrintingInv'
<1>1. PICK s : s = P!State
  OBVIOUS
<1>2. PICK th \in Threads : th = thread
  BY DEF PrintingInv
<1>3. PICK u : u = IF printer.type = "DRV" THEN P!printer_finish_job(s) ELSE s
  OBVIOUS
<1>4. PICK t : t = [u EXCEPT !.printer = [u.printer EXCEPT !.deleted = TRUE]]
  OBVIOUS
<1>5. Good(s, th) /\ s.printer = printer
  BY <1>1, <1>2 DEF PrintingInv, P!State
<1>6. Good(u, th)
  <2>1. CASE printer.type = "DRV"
    <3>1. s \in Drivers /\ DriverSound(s)
      BY <1>5, <2>1, GoodTypes
    <3> QED BY <1>3, <2>1, <3>1, FinishJobKeeps DEF Good
  <2>2. CASE printer.type # "DRV"
    BY <1>3, <1>5, <2>2
  <2> QED BY <2>1, <2>2
<1>7. Good(t, th)
  BY <1>4, <1>6, DeletedKeeps
<1>8. P!Become(t) /\ UNCHANGED thread
  BY <1>1, <1>3, <1>4 DEF P!Delete
<1> QED BY <1>2, <1>7, <1>8, Landed


(* A printer on a port has the port to itself. *)
LEMMA PortIs ==
    ASSUME NEW th, Good(P!State, th), printer.type = "LPT"
    PROVE  P!State \in Ports /\ PortSound(P!State, th)
<1>1. PICK s : s = P!State
  OBVIOUS
<1>2. s.printer.type = "LPT"
  BY <1>1 DEF P!State
<1>3. s \in Ports /\ PortSound(s, th)
  BY <1>1, <1>2, GoodTypes
<1> QED BY <1>1, <1>3

(* The thread looks. *)
LEMMA PrintLookKeeps ==
    ASSUME PrintingInv, P!Look
    PROVE  PrintingInv'
<1>1. PICK s : s = P!State
  OBVIOUS
<1>2. PICK th \in Threads : th = thread
  BY DEF PrintingInv
<1>3. s \in Ports /\ PortSound(s, th)
  BY <1>1, <1>2, PortIs DEF PrintingInv, P!Look, P!Runs
<1>4. s.printer = printer
  BY <1>1 DEF P!State
<1>5. PICK u : u = [at |-> "write", data |-> P!bufchain_prefix(s.printer.chain)]
  OBVIOUS
<1>6. th.at = "look" /\ P!bufchain_size(s.printer.chain) > 0 /\ thread' = u
  BY <1>2, <1>4, <1>5 DEF P!Look, P!Runs
<1>7. u \in Threads /\ PortSound(s, u)
  BY <1>3, <1>5, <1>6, LookKeeps
<1>8. P!State' = s
  BY <1>1 DEF P!Look, P!Rest, P!State
<1> QED BY <1>3, <1>6, <1>7, <1>8 DEF PrintingInv, Good

(* It writes to the device. *)
LEMMA PrintWriteKeeps ==
    ASSUME PrintingInv, P!Write
    PROVE  PrintingInv'
<1>1. PICK s : s = P!State
  OBVIOUS
<1>2. PICK th \in Threads : th = thread
  BY DEF PrintingInv
<1>3. s \in Ports /\ PortSound(s, th)
  BY <1>1, <1>2, PortIs DEF PrintingInv, P!Write, P!Runs
<1>4. s.device = device
  BY <1>1 DEF P!State
<1>5. PICK t : t = [s EXCEPT !.device = s.device \o th.data]
  OBVIOUS
<1>6. PICK u : u = [th EXCEPT !.at = "consume"]
  OBVIOUS
<1>7. th.at = "write" /\ thread' = u /\ device' = s.device \o th.data
  BY <1>2, <1>4, <1>6 DEF P!Write, P!Runs
<1>8. u \in Threads /\ t \in Ports /\ PortSound(t, u)
  BY <1>3, <1>5, <1>6, <1>7, WriteKeeps
<1>9. P!State' = t
  BY <1>1, <1>5, <1>7 DEF P!Write, P!Rest, P!State
<1> QED BY <1>7, <1>8, <1>9 DEF PrintingInv, Good

(* It takes what it wrote off the queue. *)
LEMMA PrintConsumeKeeps ==
    ASSUME PrintingInv, P!Consume
    PROVE  PrintingInv'
<1>1. PICK s : s = P!State
  OBVIOUS
<1>2. PICK th \in Threads : th = thread
  BY DEF PrintingInv
<1>3. s \in Ports /\ PortSound(s, th)
  BY <1>1, <1>2, PortIs DEF PrintingInv, P!Consume, P!Runs
<1>4. s.printer = printer
  BY <1>1 DEF P!State
<1>5. PICK c : c = P!bufchain_consume(s.printer.chain, Len(th.data))
  OBVIOUS
<1>6. PICK t : t = [s EXCEPT !.printer = [s.printer EXCEPT !.chain = c]]
  OBVIOUS
<1>7. PICK u : u = [at |-> "look", data |-> <<>>]
  OBVIOUS
<1>8. th.at = "consume" /\ thread' = u /\ printer' = [s.printer EXCEPT !.chain = c]
  BY <1>2, <1>4, <1>5, <1>7 DEF P!Consume, P!Runs, P!Then
<1>9. u \in Threads /\ t \in Ports /\ PortSound(t, u)
  BY <1>3, <1>5, <1>6, <1>7, <1>8, ConsumeKeeps
<1>10. P!State' = t
  BY <1>1, <1>6, <1>8 DEF P!Consume, P!Rest, P!State
<1> QED BY <1>8, <1>9, <1>10 DEF PrintingInv, Good

(* It may look at a queue that is freed. *)
LEMMA LookAfterFreeKeeps ==
    ASSUME PrintingInv, P!LookAfterFree
    PROVE  PrintingInv'
<1>1. PICK s : s = P!State
  OBVIOUS
<1>2. PICK th \in Threads : th = thread
  BY DEF PrintingInv
<1>3. PICK t : t = [s EXCEPT !.crashed = TRUE]
  OBVIOUS
<1>4. Good(t, th)
  BY <1>1, <1>2, <1>3, CrashKeeps DEF PrintingInv
<1>5. P!State' = t
  BY <1>1, <1>3 DEF P!LookAfterFree, P!State
<1> QED BY <1>2, <1>4, <1>5 DEF PrintingInv, P!LookAfterFree

(* A flushing thread sleeps. *)
LEMMA DozeKeeps ==
    ASSUME PrintingInv, NEW i \in DOMAIN flushers, P!Doze(i)
    PROVE  PrintingInv'
<1>1. PICK s : s = P!State
  OBVIOUS
<1>2. PICK th \in Threads : th = thread
  BY DEF PrintingInv
<1>3. Good(s, th) /\ s.flushers = flushers /\ s.timer = timer
  BY <1>1, <1>2 DEF PrintingInv, P!State
<1>4. PICK z \in Int : z = timer
  <2>1. timer \in Int
    BY <1>3 DEF Good, Files, Ports, Drivers, Mute, Printers
  <2> QED BY <2>1
<1>5. PICK t : t = [s EXCEPT !.timer = z, !.flushers = [s.flushers EXCEPT ![i].asleep = TRUE]]
  OBVIOUS
<1>6. PICK x \in BOOLEAN : x = TRUE
  OBVIOUS
<1>7. i \in DOMAIN s.flushers /\ t = [s EXCEPT !.timer = z, !.flushers = [s.flushers EXCEPT ![i].asleep = x]]
  BY <1>3, <1>5, <1>6
<1>8. t \in Drivers /\ DriverSound(t)
  BY <1>3, <1>7, FlusherKeeps
<1>9. P!State' = t
  BY <1>1, <1>4, <1>5, <1>3 DEF P!Doze, P!State
<1> QED BY <1>2, <1>8, <1>9 DEF PrintingInv, Good, P!Doze

(* It wakes up and flushes. *)
LEMMA TickKeeps ==
    ASSUME PrintingInv, NEW i \in DOMAIN flushers, P!Tick(i)
    PROVE  PrintingInv'
<1>1. PICK o : o = P!State
  OBVIOUS
<1>2. PICK th \in Threads : th = thread
  BY DEF PrintingInv
<1>3. Good(o, th) /\ o.flushers = flushers /\ o.timer = timer
  BY <1>1, <1>2 DEF PrintingInv, P!State
<1>4. PICK z \in Int : z = timer - 1
  <2>1. timer \in Int
    BY <1>3 DEF Good, Files, Ports, Drivers, Mute, Printers
  <2> QED BY <2>1
<1>5. PICK s : s = [o EXCEPT !.timer = @ - 1, !.flushers = [@ EXCEPT ![i].asleep = FALSE]]
  OBVIOUS
<1>6. PICK x \in BOOLEAN : x = FALSE
  OBVIOUS
<1>7. i \in DOMAIN o.flushers /\ s = [o EXCEPT !.timer = z, !.flushers = [o.flushers EXCEPT ![i].asleep = x]]
  BY <1>1, <1>3, <1>4, <1>5, <1>6 DEF P!State
<1>8. s \in Drivers /\ DriverSound(s) /\ o.flushers[i].job \in Addresses
  BY <1>3, <1>7, FlusherKeeps
<1>9. PICK a \in Addresses : a = flushers[i].job
  BY <1>3, <1>8
<1>10. Good(s, th)
  BY <1>8 DEF Good
<1>11. PICK after : after = IF timer = 1 THEN P!printer_flush_data(s, a) ELSE {s}
  OBVIOUS
<1>12. (\E t \in after : P!Become(t)) \/ P!Become([s EXCEPT !.crashed = TRUE])
  BY <1>1, <1>5, <1>9, <1>11 DEF P!Tick
<1>13. UNCHANGED thread
  BY DEF P!Tick
<1>14. CASE \E t \in after : P!Become(t)
  <2>1. PICK t : t \in after /\ P!Become(t)
    BY <1>14
  <2>2. Good(t, th)
    <3>1. CASE timer = 1
      BY <1>8, <1>11, <2>1, <3>1, DocumentFlushKeeps
    <3>2. CASE timer # 1
      BY <1>10, <1>11, <2>1, <3>2
    <3> QED BY <3>1, <3>2
  <2> QED BY <1>2, <1>13, <2>1, <2>2, Landed
<1>15. CASE P!Become([s EXCEPT !.crashed = TRUE])
  <2>1. PICK t : t = [s EXCEPT !.crashed = TRUE]
    OBVIOUS
  <2>2. Good(t, th)
    BY <1>10, <2>1, CrashKeeps
  <2> QED BY <1>2, <1>13, <1>15, <2>1, <2>2, Landed
<1> QED BY <1>12, <1>14, <1>15


-----------------------------------------------------------------------------
(* A printer that was just opened has no job, no queue and nothing written. *)
LEMMA PrintingInit ==
    ASSUME P!Init
    PROVE  PrintingInv
<1>1. PICK ty \in {"LPT", "DRV", "FIL", "COM", "SHR"} :
         printer = [type |-> ty, handle |-> P!NoJob, buffer |-> <<>>, chain |-> P!bufchain_init, deleted |-> FALSE]
  BY InstancesAssumption DEF P!Init, P!PrintingAssumption
<1>2. PICK e \in Seq(Nat) : e = <<>>
  BY EmptySeq
<1>3. PICK ch \in Seq(Blocks) : ch = <<>>
  BY EmptySeq
<1>4. PICK v \in Seq(Seq(Nat)) : v = <<>>
  BY EmptySeq
<1>5. PICK l \in Seq(Flushers) : l = <<>>
  BY EmptySeq
<1>6. PICK j \in Documents : j = [a \in Addresses |-> [live |-> FALSE, doc |-> <<>>]]
  <2>1. [live |-> FALSE, doc |-> e] \in [live : BOOLEAN, doc : Seq(Nat)]
    OBVIOUS
  <2>2. [a \in Addresses |-> [live |-> FALSE, doc |-> e]] \in Documents
    BY <2>1 DEF Documents
  <2> QED BY <1>2, <2>2
<1>7. PICK p : p = [type |-> ty, handle |-> P!NoJob, buffer |-> e, chain |-> ch, deleted |-> FALSE]
  OBVIOUS
<1>8. PICK s : s = P!State
  OBVIOUS
<1>9. s = [printer |-> p, jobs |-> j, timer |-> 0, flushers |-> <<>>, device |-> <<>>,
           given |-> 0, closed |-> <<>>, crashed |-> FALSE]
  BY <1>1, <1>2, <1>3, <1>6, <1>7, <1>8 DEF P!Init, P!State, P!bufchain_init
<1>10. PICK th : th = thread
  OBVIOUS
<1>11. th \in Threads /\ th.at = "look"
  <2>1. th = [at |-> "look", data |-> e]
    BY <1>2, <1>10 DEF P!Init
  <2> QED BY <2>1 DEF Threads
<1>12. CASE ty = "FIL"
  <2>1. s \in Files
    BY <1>2, <1>3, <1>7, <1>9, <1>12 DEF Files, Printers
  <2> QED BY <1>8, <1>10, <1>11, <2>1 DEF PrintingInv, Good
<1>13. CASE ty = "LPT"
  <2>1. s \in Ports
    BY <1>2, <1>3, <1>7, <1>9, <1>13 DEF Ports, Printers
  <2>2. Queued(s) = e
    BY <1>2, <1>3, <1>7, <1>9, ContentsEmpty DEF Queued
  <2>3. e \o e = e
    BY <1>2, ConcatEmptySeq
  <2>4. s.closed = e /\ s.device = e
    BY <1>2, <1>9
  <2>5. PortSound(s, th)
    BY <1>11, <2>2, <2>3, <2>4 DEF PortSound, Pending
  <2> QED BY <1>8, <1>10, <1>11, <2>1, <2>5 DEF PrintingInv, Good
<1>14. CASE ty = "DRV"
  <2>1. s = [printer |-> p, jobs |-> j, timer |-> 0, flushers |-> l, device |-> v,
             given |-> 0, closed |-> e, crashed |-> FALSE]
    BY <1>2, <1>4, <1>5, <1>9
  <2>2. p \in [type : {"DRV"}, handle : Addresses \union {P!NoJob}, buffer : Seq(Nat),
               chain : Seq(Blocks), deleted : BOOLEAN]
    BY <1>7, <1>14
  <2>3. s \in Drivers
    BY <2>1, <2>2 DEF Drivers, Printers
  <2>4. s.printer.handle = P!NoJob /\ s.closed = e /\ s.device = v /\ s.jobs = j
    BY <1>7, <2>1
  <2>5. P!FlattenSeq(v) = e
    BY <1>2, <1>4, FlatEmpty
  <2>6. Document(s) = e
    BY <1>2, <2>4 DEF Document
  <2>7. e \o e = e
    BY <1>2, ConcatEmptySeq
  <2>8. \A a \in Addresses : ~j[a].live /\ a # P!NoJob
    BY <1>6, NoJobIs
  <2>9. DriverSound(s)
    BY <2>4, <2>5, <2>6, <2>7, <2>8 DEF DriverSound
  <2> QED BY <1>8, <1>10, <1>11, <2>3, <2>9 DEF PrintingInv, Good
<1>15. CASE ty \in {"COM", "SHR"}
  <2>1. p \in [type : {"COM", "SHR"}, handle : {P!NoJob}, buffer : Seq(Nat),
               chain : Seq(Blocks), deleted : BOOLEAN]
    BY <1>7, <1>15
  <2>2. s \in Mute
    BY <1>2, <1>9, <2>1 DEF Mute, Printers
  <2> QED BY <1>8, <1>10, <1>11, <2>2 DEF PrintingInv, Good
<1> QED BY <1>1, <1>12, <1>13, <1>14, <1>15

(* All steps together. *)
LEMMA PrintingStepKeeps ==
    ASSUME PrintingInv, P!Next
    PROVE  PrintingInv'
<1>1. CASE P!Setup \/ P!Flush \/ P!Finish \/ P!PrintScreen \/ P!Delete
  BY <1>1, PrintSetupKeeps, PrintFlushKeeps, PrintFinishKeeps, PrintScreenKeeps, PrintDeleteKeeps
<1>2. CASE P!Look \/ P!Write \/ P!Consume \/ P!LookAfterFree
  BY <1>2, PrintLookKeeps, PrintWriteKeeps, PrintConsumeKeeps, LookAfterFreeKeeps
<1>3. CASE \E i \in DOMAIN flushers : P!Doze(i) \/ P!Tick(i)
  BY <1>3, DozeKeeps, TickKeeps
<1> QED BY <1>1, <1>2, <1>3 DEF P!Next

(* What is sound shows in the port and in the documents. *)
LEMMA PrintingShows ==
    ASSUME PrintingInv
    PROVE  P!PrintedOnceInOrder /\ P!DocumentsHoldAll
<1>1. PICK s : s = P!State
  OBVIOUS
<1>2. Good(s, thread)
  BY <1>1 DEF PrintingInv
<1>3. s.printer = printer /\ s.closed = closed /\ s.device = device /\ s.jobs = jobs
  BY <1>1 DEF P!State
<1>4. P!PrintedOnceInOrder
  <2>1. SUFFICES ASSUME printer.type = "LPT"
                 PROVE  closed = device \o IF thread.at = "consume"
                                           THEN SubSeq(P!Contents(printer.chain), Len(thread.data) + 1,
                                                       P!bufchain_size(printer.chain))
                                           ELSE P!Contents(printer.chain)
    BY DEF P!PrintedOnceInOrder
  <2>2. PortSound(s, thread)
    BY <1>2, <1>3, <2>1, GoodTypes
  <2> QED BY <1>3, <2>2 DEF PortSound, Pending, Queued, Drop, P!bufchain_size
<1>5. P!DocumentsHoldAll
  <2>1. SUFFICES ASSUME printer.type = "DRV"
                 PROVE  closed = P!FlattenSeq(device) \o IF printer.handle = P!NoJob THEN <<>>
                                                         ELSE jobs[printer.handle].doc
    BY DEF P!DocumentsHoldAll
  <2>2. DriverSound(s)
    BY <1>2, <1>3, <2>1, GoodTypes
  <2> QED BY <1>3, <2>2 DEF DriverSound, Document
<1> QED BY <1>4, <1>5

(* PrintedSound, whatever the printer, the jobs and the order in which the
   threads of the program run (printapi.c, winprint.c, misc.c). *)
THEOREM PrintingIsSound == HostSpec => []PrintedSound
<1> DEFINE Inv == part = "printing" => PrintingInv
<1>1. HostInit => Inv
  BY PrintingInit DEF HostInit
<1>2. Inv /\ [HostNext]_allVars => Inv'
  <2> SUFFICES ASSUME Inv, [HostNext]_allVars, part' = "printing"
               PROVE  PrintingInv'
    OBVIOUS
  <2>1. CASE PrintingStep
    BY <2>1, PrintingStepKeeps DEF PrintingStep
  <2>2. CASE TelnetStep \/ BackendStep \/ InputStep
    BY <2>2 DEF TelnetStep, BackendStep, InputStep
  <2>3. CASE UNCHANGED allVars
    <3>1. UNCHANGED <<part, printingVars>>
      BY <2>3 DEF allVars
    <3>2. part = "printing" /\ PrintingInv
      BY <3>1
    <3> QED BY <3>1, <3>2 DEF printingVars, PrintingInv, P!State
  <2> QED BY <2>1, <2>2, <2>3 DEF HostNext
<1>3. Inv => PrintedSound
  BY PrintingShows DEF PrintedSound
<1> QED BY <1>1, <1>2, <1>3, PTL DEF HostSpec
=============================================================================
