----------------------------- MODULE UserSideProofs -----------------------------
(*******************************************************************************)
(* Proofs about what the user does: the line discipline implements LineEditor, *)
(* for every configuration, every set of calls and a line of any length; and   *)
(* the mouse is shared between the selection and the host, for every setting   *)
(* and any number of reports.                                                  *)
(*******************************************************************************)
EXTENDS UserSide, SequenceTheorems, WellFoundedInduction, TLAPS

-----------------------------------------------------------------------------
(* What an erasure leaves is the start of the line. *)
LEMMA WithoutCharIsStart ==
    ASSUME NEW s \in Seq(Char)
    PROVE  \E n \in 0 .. Len(s) : WithoutChar(s) = SubSeq(s, 1, n)
<1>1. SubSeq(s, 1, 0) = <<>> /\ 0 \in 0 .. Len(s)
  OBVIOUS
<1>2. CASE LastStarts(s) = {}
  BY <1>1, <1>2 DEF WithoutChar
<1>3. CASE LastStarts(s) # {}
  <2>1. PICK i \in LastStarts(s) : i = CHOOSE j \in LastStarts(s) : TRUE
    BY <1>3
  <2>2. i - 1 \in 0 .. Len(s)
    BY DEF LastStarts
  <2> QED BY <1>3, <2>1, <2>2 DEF WithoutChar
<1> QED BY <1>2, <1>3

LEMMA WithoutWordIsStart ==
    ASSUME NEW s \in Seq(Char)
    PROVE  \E n \in 0 .. Len(s) : WithoutWord(s) = SubSeq(s, 1, n)
<1>1. SubSeq(s, 1, 0) = <<>> /\ 0 \in 0 .. Len(s)
  OBVIOUS
<1>2. CASE LastBlanks(s) = {}
  BY <1>1, <1>2 DEF WithoutWord
<1>3. CASE LastBlanks(s) # {}
  <2>1. PICK i \in LastBlanks(s) : i = CHOOSE j \in LastBlanks(s) : TRUE
    BY <1>3
  <2>2. i \in 0 .. Len(s)
    BY DEF LastBlanks
  <2> QED BY <1>3, <2>1, <2>2 DEF WithoutWord
<1> QED BY <1>2, <1>3

(* A line with more after it begins with the line. *)
LEMMA LineFirst ==
    ASSUME NEW S, NEW s \in Seq(S), NEW t \in Seq(S)
    PROVE  LineKept!IsPrefix(s, s \o t)
<1>1. Len(s) <= Len(s \o t) /\ Len(s) \in Nat
  OBVIOUS
<1>2. SubSeq(s, 1, Len(s)) = SubSeq(s \o t, 1, Len(s))
  OBVIOUS
<1> QED BY <1>1, <1>2 DEF LineKept!IsPrefix

(* Sequences of one and two elements, and the start of one with an element after. *)
LEMMA ShortSequences ==
    ASSUME NEW S, NEW x \in S, NEW y \in S
    PROVE  <<x>> \in Seq(S) /\ <<x, y>> \in Seq(S) /\ <<>> \in Seq(S)
OBVIOUS

(* The start of a sequence is a sequence, and one character more makes another. *)
LEMMA StartAppended ==
    ASSUME NEW S, NEW s \in Seq(S), NEW n \in 0 .. Len(s), NEW x \in S
    PROVE  SubSeq(s, 1, n) \in Seq(S) /\ Append(SubSeq(s, 1, n), x) \in Seq(S)
<1>1. SubSeq(s, 1, n) \in Seq(S)
  OBVIOUS
<1>2. \A t \in Seq(S) : Append(t, x) \in Seq(S)
  OBVIOUS
<1> QED BY <1>1, <1>2

(* Its elements are those of the sequence. *)
LEMMA StartProperties ==
    ASSUME NEW S, NEW s \in Seq(S), NEW n \in 0 .. Len(s)
    PROVE  /\ SubSeq(s, 1, n) \in Seq(S) /\ Len(SubSeq(s, 1, n)) = n
           /\ \A i \in 1 .. n : SubSeq(s, 1, n)[i] = s[i]
OBVIOUS

(* A line that ends in x, sent with its last character replaced by x and y. *)
LEMMA EndRewritten ==
    ASSUME NEW S, NEW s \in Seq(S), NEW x, NEW y, s # <<>>, s[Len(s)] = x
    PROVE  SubSeq(s, 1, Len(s) - 1) \o <<x, y>> = s \o <<y>>
<1> DEFINE U == S \union {x, y}
           f == SubSeq(s, 1, Len(s) - 1)
           a == f \o <<x, y>>
           b == s \o <<y>>
<1>1. Len(s) \in Nat /\ Len(s) # 0 /\ Len(s) - 1 \in Nat
  BY EmptySeq
<1>2. s \in Seq(U) /\ <<x, y>> \in Seq(U) /\ <<y>> \in Seq(U)
  BY ShortSequences
<1>3. \A i \in 1 .. Len(s) : s[i] \in U
  BY ElementOfSeq
<1> HIDE DEF U
<1>4. /\ f \in Seq(U) /\ Len(f) = Len(s) - 1
      /\ \A i \in 1 .. Len(s) - 1 : f[i] = s[i]
  <2>1. Len(s) - 1 \in 0 .. Len(s)
    BY <1>1
  <2> QED BY <1>2, <2>1, StartProperties
<1> HIDE DEF f
<1>5. /\ a \in Seq(U) /\ Len(a) = Len(s) + 1
      /\ \A i \in 1 .. Len(s) + 1 :
            a[i] = IF i <= Len(s) - 1 THEN f[i] ELSE <<x, y>>[i - (Len(s) - 1)]
  BY <1>1, <1>2, <1>4, ConcatProperties
<1>6. /\ b \in Seq(U) /\ Len(b) = Len(s) + 1
      /\ \A i \in 1 .. Len(s) + 1 :
            b[i] = IF i <= Len(s) THEN s[i] ELSE <<y>>[i - Len(s)]
  BY <1>1, <1>2, ConcatProperties
<1> HIDE DEF a, b
<1>7. ASSUME NEW i \in 1 .. Len(s) + 1 PROVE a[i] = b[i]
  <2>1. CASE i <= Len(s) - 1
    <3>1. i \in 1 .. Len(s) - 1 /\ i <= Len(s)
      BY <1>1, <2>1
    <3> QED BY <1>4, <1>5, <1>6, <2>1, <3>1
  <2>2. CASE i = Len(s)
    <3>1. i - (Len(s) - 1) = 1 /\ ~(i <= Len(s) - 1) /\ i <= Len(s)
      BY <1>1, <2>2
    <3>2. a[i] = <<x, y>>[1] /\ b[i] = s[Len(s)]
      BY <1>5, <1>6, <2>2, <3>1
    <3> QED BY <3>2
  <2>3. CASE i = Len(s) + 1
    <3>1. i - (Len(s) - 1) = 2 /\ ~(i <= Len(s) - 1) /\ ~(i <= Len(s)) /\ i - Len(s) = 1
      BY <1>1, <2>3
    <3>2. a[i] = <<x, y>>[2] /\ b[i] = <<y>>[1]
      BY <1>5, <1>6, <3>1
    <3> QED BY <3>2
  <2>4. i <= Len(s) - 1 \/ i = Len(s) \/ i = Len(s) + 1
    BY <1>1
  <2> QED BY <2>1, <2>2, <2>3, <2>4
<1>8. a = b
  BY <1>5, <1>6, <1>7, SeqEqual
<1> QED BY <1>8 DEF a, b, f

-----------------------------------------------------------------------------
(* The two forms of a step of LineEditor. *)
LEMMA IsEdit ==
    ASSUME buf \in Seq(Char), out' \in Seq(Signal),
           NEW n \in 0 .. Len(buf), NEW x \in Char,
           buf' = SubSeq(buf, 1, n) \/ buf' = Append(SubSeq(buf, 1, n), x)
    PROVE  LineKept!Edit /\ buf' \in Seq(Char) /\ out' \in Seq(Char \union Signal)
<1>2. buf' \in Seq(Char)
  BY StartAppended
<1>3. out' \in Seq(Char \union Signal)
  OBVIOUS
<1> QED BY <1>2, <1>3 DEF LineKept!Edit

(* A step that empties the line and sends it, or something else, is one of sending. *)
LEMMA IsSend ==
    ASSUME buf \in Seq(Char), NEW t \in Seq(Char \union Signal),
           out' = buf \o t, buf' = <<>>
    PROVE  LineKept!Send /\ buf' \in Seq(Char) /\ out' \in Seq(Char \union Signal)
<1>1. buf \in Seq(Char \union Signal)
  OBVIOUS
<1>2. LineKept!IsPrefix(buf, buf \o t) /\ buf \o t \in Seq(Char \union Signal)
  BY <1>1, LineFirst
<1> QED BY <1>2 DEF LineKept!Send

(* The characters of a call, and the ends of a line, are characters. *)
LEMMA NewlineType == Newline \in Seq(Char \union Signal)
<1>1. /\ "^M" \in Char \union Signal /\ "^J" \in Char \union Signal
      /\ "EOL" \in Char \union Signal
  BY DEF Char, Control, Signal
<1> HIDE DEF Char, Signal
<1> QED BY <1>1, ShortSequences DEF Newline

(* Types of what is taken of a call. *)
LEMMA TakenType ==
    ASSUME LineTypes, call.text # <<>>
    PROVE  /\ c \in Char
           /\ Taken => call' \in [text : Seq(Char), special : BOOLEAN, interactive : BOOLEAN]
<1>1. call.text \in Seq(Char)
  BY DEF LineTypes
<1>2. Head(call.text) \in Char /\ Tail(call.text) \in Seq(Char)
  BY <1>1
<1> QED BY <1>2 DEF LineTypes, Taken, c

(* A character taken in the loop. *)
Steps ==
    /\ LineKept!Edit \/ LineKept!Send
    /\ buf' \in Seq(Char) /\ quotenext' \in BOOLEAN /\ out' \in Seq(Char \union Signal)

LEMMA InsertsAfter ==
    ASSUME LineTypes, c \in Char, out' \in Seq(Signal),
           NEW n \in 0 .. Len(buf), Inserts(SubSeq(buf, 1, n))
    PROVE  Steps
<1>1. buf \in Seq(Char)
  BY DEF LineTypes
<1>2. buf' = Append(SubSeq(buf, 1, n), c) /\ quotenext' = FALSE
  BY DEF Inserts
<1> QED BY <1>1, <1>2, IsEdit DEF Steps

(* All that is done with a character while lines are edited. *)
LEMMA EditSteps ==
    ASSUME LineTypes, Edit
    PROVE  Steps
<1>1. /\ buf \in Seq(Char) /\ quotenext \in BOOLEAN /\ c \in Char
  BY TakenType DEF LineTypes, Edit
<1>2. /\ Len(buf) \in Nat /\ <<>> \in Seq(Signal)
      /\ SubSeq(buf, 1, 0) = <<>> /\ SubSeq(buf, 1, Len(buf)) = buf
      /\ 0 \in 0 .. Len(buf) /\ Len(buf) \in 0 .. Len(buf)
  BY <1>1
<1>3. CASE EraseChar
  <2>1. buf' = WithoutChar(buf) /\ out' = <<>> /\ quotenext' = quotenext
    BY <1>3 DEF EraseChar, Erases
  <2>2. PICK n \in 0 .. Len(buf) : buf' = SubSeq(buf, 1, n)
    BY <1>1, <2>1, WithoutCharIsStart
  <2> QED BY <1>1, <1>2, <2>1, <2>2, IsEdit DEF Steps
<1>4. CASE EraseWord
  <2>1. buf' = WithoutWord(buf) /\ out' = <<>> /\ quotenext' = quotenext
    BY <1>4 DEF EraseWord, Erases
  <2>2. PICK n \in 0 .. Len(buf) : buf' = SubSeq(buf, 1, n)
    BY <1>1, <2>1, WithoutWordIsStart
  <2> QED BY <1>1, <1>2, <2>1, <2>2, IsEdit DEF Steps
<1>5. CASE KillLine
  <2>1. KillSignal \in Seq(Signal) /\ <<"EL">> \in Seq(Signal)
    <3>1. {"EL", "IP", "SUSP", "ABORT"} \subseteq Signal
      BY DEF Signal
    <3> QED BY <3>1, ShortSequences DEF KillSignal
  <2>2. CASE cfg.keyboard
    <3>1. buf' = SubSeq(buf, 1, 0) /\ out' = KillSignal /\ quotenext' = quotenext
      BY <1>2, <1>5, <2>2 DEF KillLine, Erases
    <3> QED BY <1>1, <1>2, <2>1, <3>1, IsEdit DEF Steps
  <2>3. CASE ~cfg.keyboard
    <3>1. out' = <<"EL">> /\ Inserts(SubSeq(buf, 1, 0))
      BY <1>2, <1>5, <2>3 DEF KillLine
    <3> QED BY <1>1, <1>2, <2>1, <3>1, InsertsAfter
  <2> QED BY <2>2, <2>3
<1>6. CASE Redraw
  <2>1. buf' = SubSeq(buf, 1, Len(buf)) /\ out' = <<>> /\ quotenext' = quotenext
    BY <1>2, <1>6 DEF Redraw
  <2> QED BY <1>1, <1>2, <2>1, IsEdit DEF Steps
<1>7. CASE Quote
  <2>1. buf' = SubSeq(buf, 1, Len(buf)) /\ out' = <<>> /\ quotenext' = TRUE
    BY <1>2, <1>7 DEF Quote
  <2> QED BY <1>1, <1>2, <2>1, IsEdit DEF Steps
<1>8. CASE Logout
  <2>1. <<"EOF">> \in Seq(Char \union Signal) /\ <<>> \in Seq(Char \union Signal)
    BY DEF Signal
  <2>2. buf' = <<>> /\ quotenext' = quotenext
    BY <1>8 DEF Logout, Cleared
  <2>3. out' = buf \o <<>> \/ out' = buf \o <<"EOF">>
    <3>1. buf \o <<>> = buf /\ <<>> \o <<"EOF">> = <<"EOF">>
      BY <1>1
    <3> QED BY <1>8, <3>1 DEF Logout
  <2> QED BY <1>1, <2>1, <2>2, <2>3, IsSend DEF Steps
<1>9. CASE Enter
  <2>1. buf' = <<>> /\ out' = buf \o Newline /\ quotenext' = quotenext
    BY <1>9 DEF Enter, Cleared
  <2> QED BY <1>1, <2>1, NewlineType, IsSend DEF Steps
<1>10. CASE LineFeed
  <2>1. /\ buf' = <<>> /\ out' = Front(buf) \o Newline /\ quotenext' = quotenext
        /\ buf # <<>> /\ buf[Len(buf)] = "^M" /\ Newline = <<"^M", "^J">>
    BY <1>10 DEF LineFeed, Cleared, RawNewline, Last, Newline
  <2>2. Front(buf) \o <<"^M", "^J">> = buf \o <<"^J">>
    BY <1>1, <2>1, EndRewritten DEF Front
  <2>3. <<"^J">> \in Seq(Char \union Signal)
    BY DEF Char, Control
  <2> QED BY <1>1, <2>1, <2>2, <2>3, IsSend DEF Steps
<1>11. CASE Insert
  <2>1. out' = <<>> /\ Inserts(SubSeq(buf, 1, Len(buf)))
    BY <1>2, <1>11 DEF Insert
  <2> QED BY <1>1, <1>2, <2>1, InsertsAfter
<1> QED
  BY <1>3, <1>4, <1>5, <1>6, <1>7, <1>8, <1>9, <1>10, <1>11 DEF Edit

(* The text that a call which does not edit hands over. *)
LEMMA SendSteps ==
    ASSUME LineTypes, NEW k \in Calls, ldisc_send(k)
    PROVE  Steps /\ call' \in [text : Seq(Char), special : BOOLEAN, interactive : BOOLEAN]
<1>1. /\ buf \in Seq(Char) /\ quotenext' \in BOOLEAN
      /\ k \in [text : Seq(Char), special : BOOLEAN, interactive : BOOLEAN]
      /\ k.text # <<>>
  BY LdiscAssumption DEF LineTypes, ldisc_send
<1>2. CASE EDITING
  <2>1. buf' = SubSeq(buf, 1, Len(buf)) /\ out' = <<>> /\ call' = k
    BY <1>1, <1>2 DEF ldisc_send
  <2>2. Len(buf) \in 0 .. Len(buf) /\ <<>> \in Seq(Signal)
    BY <1>1
  <2>3. k.text[1] \in Char
    BY <1>1
  <2> QED BY <1>1, <2>1, <2>2, <2>3, IsEdit DEF Steps
<1>3. CASE ~EDITING
  <2>1. Key(k.text) \in Seq(Char \union Signal) /\ k.text \in Seq(Char \union Signal)
    <3>1. /\ "^M" \in Char \union Signal
          /\ {"EOL", "EC", "IP", "SUSP"} \subseteq Char \union Signal
      BY DEF Char, Control, Signal
    <3>2. k.text \in Seq(Char \union Signal)
      BY <1>1
    <3>3. \A s \in {"^M", "EOL", "EC", "IP", "SUSP"} : <<s>> \in Seq(Char \union Signal)
      BY <3>1, ShortSequences
    <3> HIDE DEF Char, Signal
    <3>4. Key(k.text) \in {<<"^M">>, <<"EOL">>, <<"EC">>, <<"IP">>, <<"SUSP">>, k.text}
      BY DEF Key
    <3> QED BY <3>2, <3>3, <3>4
  <2>2. PICK t \in Seq(Char \union Signal) : Direct(k) = buf \o t
    BY <2>1 DEF Direct
  <2>3. out' = buf \o t /\ buf' = <<>> /\ call' = call
    BY <1>3, <2>2 DEF ldisc_send, Cleared
  <2> QED BY <1>1, <2>3, IsSend DEF Steps, LineTypes
<1> QED BY <1>2, <1>3

(* A change of the settings, or of the session, leaves the line or drops it. *)
LEMMA ChangedSteps ==
    ASSUME LineTypes, SetOption \/ Reconfigure \/ Restart
    PROVE  Steps
<1>1. /\ buf \in Seq(Char) /\ out' = <<>> /\ quotenext' \in BOOLEAN
      /\ buf' = buf \/ buf' = <<>>
  BY DEF LineTypes, SetOption, Reconfigure, Restart, Changed, Cleared
<1>2. /\ <<>> \in Seq(Signal) /\ "a" \in Char
      /\ SubSeq(buf, 1, 0) = <<>> /\ SubSeq(buf, 1, Len(buf)) = buf
      /\ 0 \in 0 .. Len(buf) /\ Len(buf) \in 0 .. Len(buf)
  BY <1>1 DEF Char, Plain
<1> QED BY <1>1, <1>2, IsEdit DEF Steps

-----------------------------------------------------------------------------
(* The types hold at first, and after every step, which is one of LineEditor. *)
LEMMA InitTypes == Init => LineTypes
<1>1. <<>> \in Seq(Char) /\ <<>> \in Seq(Char \union Signal)
  OBVIOUS
<1>2. NoCall \in [text : Seq(Char), special : BOOLEAN, interactive : BOOLEAN]
  BY <1>1 DEF NoCall
<1> QED BY <1>1, <1>2 DEF Init, LineTypes

LEMMA StepTypes ==
    ASSUME LineTypes, [Next]_vars
    PROVE  LineTypes' /\ [LineKept!Edit \/ LineKept!Send]_<<buf, out>>
<1>1. CASE Send
  <2>1. PICK k \in Calls : ldisc_send(k)
    BY <1>1 DEF Send, ldisc_send_bin
  <2>2. cfg' = cfg /\ host' = host
    BY <2>1 DEF ldisc_send
  <2> QED BY <2>1, <2>2, SendSteps DEF LineTypes, Steps
<1>2. CASE Edit
  <2>1. cfg' = cfg /\ host' = host /\ call.text # <<>> /\ Taken
    BY <1>2 DEF Edit
  <2> QED BY <1>2, <2>1, EditSteps, TakenType DEF LineTypes, Steps
<1>3. CASE SetOption \/ Reconfigure \/ Restart
  <2>1. cfg' \in Configs /\ host' \in Host /\ call' = call
    BY <1>3 DEF LineTypes, SetOption, Reconfigure, Restart, Changed
  <2> QED BY <1>3, <2>1, ChangedSteps DEF LineTypes, Steps
<1>4. CASE UNCHANGED vars
  BY <1>4 DEF LineTypes, vars
<1> QED BY <1>1, <1>2, <1>3, <1>4 DEF Next

(* The line discipline implements the line editor: what was typed and not
   erased is sent in order and once, for every configuration, every call and
   every line (ldisc_send() and the other entries of ldisc.c). *)
THEOREM LdiscIsLineEditor == Spec => IsLineEditor
<1>1. Init => LineKept!Init
  BY DEF Init, LineKept!Init
<1> QED
  BY <1>1, InitTypes, StepTypes, PTL DEF Spec, IsLineEditor, LineKept!Spec

-----------------------------------------------------------------------------
(* The columns of a line, which a recursive function adds up.  The provers have no
   induction over a line; a least counterexample takes its place. *)

(* Every nonempty set of natural numbers has a least member. *)
LEMMA LeastOf ==
    ASSUME NEW T, T \subseteq Nat, T # {}
    PROVE  \E m \in T : \A k \in T : m <= k
<1> DEFINE R == OpToRel(<, Nat)
<1>1. IsWellFoundedOn(R, Nat)
  BY NatLessThanWellFounded
<1>2. \A a, b \in Nat : a < b => <<a, b>> \in R
  BY DEF OpToRel
<1> HIDE DEF R
<1>3. PICK m \in T : \A k \in T : ~ (<<k, m>> \in R)
  BY <1>1, WFMin
<1>4. ASSUME NEW k \in T PROVE m <= k
  <2>1. m \in Nat /\ k \in Nat /\ ~(k < m)
    BY <1>2, <1>3
  <2> QED BY <2>1
<1> QED BY <1>4

(* f adds up the first m characters of s. *)
Adds(f, s, utf, m) ==
    f = [n \in 0 .. m |-> IF n = 0 THEN 0 ELSE f[n - 1] + plen(s[n], utf)]

CanAdd(s, utf, m) == \E f \in [0 .. m -> Nat] : Adds(f, s, utf, m)

(* A character has some columns. *)
LEMMA PlenType ==
    ASSUME NEW x, NEW utf
    PROVE  plen(x, utf) \in Nat
BY DEF plen

(* There is such a function for each start of the line, and its values are numbers
   of columns. *)
LEMMA AddsExists ==
    ASSUME NEW s, NEW utf, NEW m \in Nat
    PROVE  CanAdd(s, utf, m)
<1> DEFINE B == {k \in Nat : ~CanAdd(s, utf, k)}
<1>1. SUFFICES ASSUME B # {} PROVE FALSE
  OBVIOUS
<1>2. PICK k \in B : \A j \in B : k <= j
  BY <1>1, LeastOf
<1>3. k # 0
  <2> DEFINE f == [n \in 0 .. 0 |-> 0]
  <2>1. f \in [0 .. 0 -> Nat] /\ Adds(f, s, utf, 0)
    BY DEF Adds
  <2>2. CanAdd(s, utf, 0)
    BY <2>1 DEF CanAdd
  <2> QED BY <2>2
<1>4. k \in Nat /\ k - 1 \in Nat /\ k - 1 \notin B
  BY <1>2, <1>3
<1>5. PICK g \in [0 .. k - 1 -> Nat] : Adds(g, s, utf, k - 1)
  BY <1>4 DEF CanAdd
<1> DEFINE f == [n \in 0 .. k |-> IF n = k THEN g[k - 1] + plen(s[k], utf) ELSE g[n]]
<1>6. f \in [0 .. k -> Nat]
  BY <1>4, <1>5, PlenType
<1>7. ASSUME NEW n \in 0 .. k
      PROVE  f[n] = IF n = 0 THEN 0 ELSE f[n - 1] + plen(s[n], utf)
  <2>1. CASE n = k
    <3>1. f[n] = g[k - 1] + plen(s[k], utf) /\ f[n - 1] = g[k - 1]
      BY <1>4, <2>1
    <3> QED BY <1>3, <2>1, <3>1
  <2>2. CASE n # k
    <3>1. n \in 0 .. k - 1 /\ f[n] = g[n]
      BY <1>4, <2>2
    <3>2. n # 0 => n - 1 \in 0 .. k /\ n - 1 # k /\ f[n - 1] = g[n - 1]
      BY <1>4, <2>2
    <3>3. g[n] = IF n = 0 THEN 0 ELSE g[n - 1] + plen(s[n], utf)
      BY <1>5, <3>1 DEF Adds
    <3> QED BY <3>1, <3>2, <3>3
  <2> QED BY <2>1, <2>2
<1>8. Adds(f, s, utf, k)
  <2> DEFINE h == [n \in 0 .. k |-> IF n = 0 THEN 0 ELSE f[n - 1] + plen(s[n], utf)]
  <2>1. DOMAIN f = 0 .. k /\ DOMAIN h = 0 .. k /\ \A n \in 0 .. k : f[n] = h[n]
    BY <1>7
  <2>2. f = h
    <3>1. f = [n \in 0 .. k |-> f[n]] /\ h = [n \in 0 .. k |-> h[n]]
      OBVIOUS
    <3> HIDE DEF f, h
    <3> QED BY <2>1, <3>1
  <2> HIDE DEF f
  <2> QED BY <2>2 DEF Adds
<1> HIDE DEF f
<1>9. CanAdd(s, utf, k)
  BY <1>6, <1>8 DEF CanAdd
<1> QED BY <1>2, <1>9

(* Two such functions agree wherever they add up the same characters. *)
LEMMA AddsUnique ==
    ASSUME NEW s, NEW t, NEW utf, NEW m \in Nat, NEW l \in Nat, l <= m,
           \A i \in 1 .. l : s[i] = t[i],
           NEW f, Adds(f, s, utf, l), NEW g, Adds(g, t, utf, m),
           NEW n \in 0 .. l
    PROVE  f[n] = g[n]
<1> DEFINE B == {k \in 0 .. l : f[k] # g[k]}
<1>1. SUFFICES ASSUME B # {} PROVE FALSE
  OBVIOUS
<1>2. PICK k \in B : \A j \in B : k <= j
  <2>1. B \subseteq Nat
    OBVIOUS
  <2> QED BY <1>1, <2>1, LeastOf
<1>3. /\ f[k] = IF k = 0 THEN 0 ELSE f[k - 1] + plen(s[k], utf)
      /\ g[k] = IF k = 0 THEN 0 ELSE g[k - 1] + plen(t[k], utf)
  <2>1. k \in 0 .. l /\ k \in 0 .. m
    OBVIOUS
  <2> QED BY <2>1 DEF Adds
<1>4. CASE k = 0
  BY <1>3, <1>4
<1>5. CASE k # 0
  <2>1. k \in 1 .. l /\ k - 1 \in 0 .. l /\ k - 1 \notin B
    BY <1>2, <1>5
  <2>2. f[k - 1] = g[k - 1] /\ s[k] = t[k]
    BY <2>1
  <2> QED BY <1>3, <1>5, <2>2
<1> QED BY <1>4, <1>5

(* The function of the definition is one of them. *)
LEMMA ColumnsAdds ==
    ASSUME NEW s, NEW utf, Len(s) \in Nat
    PROVE  \E f : /\ Adds(f, s, utf, Len(s)) /\ f \in [0 .. Len(s) -> Nat]
                  /\ ColumnsOf(s, utf) = f[Len(s)]
<1> DEFINE Q(f) == f = [n \in 0 .. Len(s) |-> IF n = 0 THEN 0 ELSE f[n - 1] + plen(s[n], utf)]
           f == CHOOSE h : Q(h)
<1>1. PICK g \in [0 .. Len(s) -> Nat] : Adds(g, s, utf, Len(s))
  BY AddsExists DEF CanAdd
<1>2. Q(g)
  BY <1>1 DEF Adds
<1>3. Q(f)
  BY <1>2
<1>4. ColumnsOf(s, utf) = f[Len(s)]
  BY DEF ColumnsOf
<1> HIDE DEF f
<1>5. Adds(f, s, utf, Len(s))
  BY <1>3 DEF Adds
<1>6. \A n \in 0 .. Len(s) : f[n] = g[n]
  BY <1>1, <1>5, AddsUnique
<1>7. f \in [0 .. Len(s) -> Nat]
  <2>1. DOMAIN f = 0 .. Len(s) /\ f = [n \in 0 .. Len(s) |-> f[n]]
    BY <1>3
  <2> QED BY <1>6, <2>1
<1> QED BY <1>4, <1>5, <1>7

(* No character, and one character more. *)
LEMMA ColumnsFacts ==
    ASSUME NEW utf, NEW s \in Seq(Char)
    PROVE  /\ ColumnsOf(s, utf) \in Nat /\ ColumnsOf(<<>>, utf) = 0
           /\ \A x \in Char : ColumnsOf(Append(s, x), utf) = ColumnsOf(s, utf) + plen(x, utf)
<1>1. Len(s) \in Nat
  OBVIOUS
<1>2. PICK f : /\ Adds(f, s, utf, Len(s)) /\ f \in [0 .. Len(s) -> Nat]
               /\ ColumnsOf(s, utf) = f[Len(s)]
  BY <1>1, ColumnsAdds
<1>3. ColumnsOf(s, utf) \in Nat
  BY <1>1, <1>2
<1>4. ColumnsOf(<<>>, utf) = 0
  <2>1. PICK e : Adds(e, <<>>, utf, Len(<<>>)) /\ ColumnsOf(<<>>, utf) = e[Len(<<>>)]
    BY ColumnsAdds
  <2>2. Len(<<>>) = 0 /\ 0 \in 0 .. Len(<<>>)
    OBVIOUS
  <2> QED BY <2>1, <2>2 DEF Adds
<1>5. ASSUME NEW x \in Char
      PROVE  ColumnsOf(Append(s, x), utf) = ColumnsOf(s, utf) + plen(x, utf)
  <2> DEFINE t == Append(s, x)
             l == Len(s)
  <2>1. /\ Len(t) = l + 1 /\ t[l + 1] = x
        /\ \A i \in 1 .. l : s[i] = t[i]
    OBVIOUS
  <2> HIDE DEF t
  <2>2. PICK g : /\ Adds(g, t, utf, Len(t)) /\ ColumnsOf(t, utf) = g[Len(t)]
    BY <1>1, <2>1, ColumnsAdds
  <2> HIDE DEF l
  <2>3. l \in Nat /\ l + 1 \in Nat /\ l <= l + 1 /\ l \in 0 .. l /\ l + 1 \in 0 .. l + 1
    BY <1>1 DEF l
  <2>4. Adds(f, s, utf, l) /\ Adds(g, t, utf, l + 1)
    BY <1>2, <2>1, <2>2 DEF l
  <2>5. f[l] = g[l]
    <3>1. PICK m \in Nat : m = l + 1
      BY <2>3
    <3>2. Adds(g, t, utf, m) /\ l <= m
      BY <2>3, <2>4, <3>1
    <3>3. PICK n \in 0 .. l : n = l
      BY <2>3
    <3>4. f[n] = g[n]
      <4>1. l \in Nat /\ l <= m /\ \A i \in 1 .. l : s[i] = t[i]
        BY <2>1, <2>3, <3>2
      <4>2. Adds(f, s, utf, l) /\ Adds(g, t, utf, m)
        BY <2>4, <3>2
      <4> QED BY <4>1, <4>2, AddsUnique
    <3> QED BY <3>3, <3>4
  <2>6. g[l + 1] = g[l] + plen(t[l + 1], utf)
    BY <2>3, <2>4 DEF Adds
  <2>7. ColumnsOf(s, utf) = f[l]
    BY <1>2 DEF l
  <2> QED BY <2>1, <2>2, <2>5, <2>6, <2>7 DEF t
<1> QED BY <1>3, <1>4, <1>5

(* The start of a line and the character after it; a start has no more columns than
   the line, and the last character no more either. *)
LEMMA NextColumns ==
    ASSUME NEW utf, NEW s \in Seq(Char), NEW k \in 1 .. Len(s)
    PROVE  /\ SubSeq(s, 1, k - 1) \in Seq(Char) /\ SubSeq(s, 1, k) \in Seq(Char)
           /\ s[k] \in Char /\ plen(s[k], utf) \in Nat
           /\ ColumnsOf(SubSeq(s, 1, k - 1), utf) \in Nat
           /\ ColumnsOf(SubSeq(s, 1, k), utf)
                 = ColumnsOf(SubSeq(s, 1, k - 1), utf) + plen(s[k], utf)
<1>1. PICK t \in Seq(Char) : t = SubSeq(s, 1, k - 1)
  <2>1. SubSeq(s, 1, k - 1) \in Seq(Char)
    OBVIOUS
  <2> QED BY <2>1
<1>2. s[k] \in Char /\ SubSeq(s, 1, k) = Append(t, s[k]) /\ SubSeq(s, 1, k) \in Seq(Char)
  BY <1>1
<1>3. PICK x \in Char : x = s[k]
  BY <1>2
<1>4. /\ ColumnsOf(t, utf) \in Nat /\ plen(x, utf) \in Nat
      /\ ColumnsOf(Append(t, x), utf) = ColumnsOf(t, utf) + plen(x, utf)
  BY ColumnsFacts, PlenType
<1> QED BY <1>1, <1>2, <1>3, <1>4

LEMMA StartColumns ==
    ASSUME NEW utf, NEW s \in Seq(Char), NEW n \in 0 .. Len(s)
    PROVE  ColumnsOf(SubSeq(s, 1, n), utf) <= ColumnsOf(s, utf)
<1> DEFINE C(k) == ColumnsOf(SubSeq(s, 1, k), utf)
           B == {k \in n .. Len(s) : ~(C(n) <= C(k))}
<1>1. \A k \in 0 .. Len(s) : C(k) \in Nat
  <2>1. \A k \in 0 .. Len(s) : SubSeq(s, 1, k) \in Seq(Char)
    OBVIOUS
  <2> QED BY <2>1, ColumnsFacts
<1>2. \A k \in 1 .. Len(s) : C(k - 1) <= C(k)
  <2>1. ASSUME NEW k \in 1 .. Len(s) PROVE C(k - 1) <= C(k)
    BY NextColumns
  <2> QED BY <2>1
<1>3. C(Len(s)) = ColumnsOf(s, utf)
  <2>1. SubSeq(s, 1, Len(s)) = s
    OBVIOUS
  <2> QED BY <2>1
<1> HIDE DEF C
<1>4. SUFFICES ASSUME B # {} PROVE FALSE
  <2>1. Len(s) \in n .. Len(s)
    OBVIOUS
  <2>2. ASSUME B = {} PROVE C(n) <= C(Len(s))
    BY <2>1, <2>2
  <2> QED BY <1>3, <2>2 DEF C
<1>5. PICK k \in B : \A j \in B : k <= j
  <2>1. B \subseteq Nat
    OBVIOUS
  <2> QED BY <1>4, <2>1, LeastOf
<1>6. k \in n .. Len(s) /\ ~(C(n) <= C(k)) /\ k # n
  BY <1>1, <1>5
<1>7. k - 1 \in n .. Len(s) /\ k \in 1 .. Len(s) /\ k - 1 \in 0 .. Len(s)
  BY <1>6
<1>8. C(n) <= C(k - 1)
  BY <1>5, <1>7
<1> QED BY <1>1, <1>2, <1>6, <1>7, <1>8

LEMMA LastColumns ==
    ASSUME NEW utf, NEW s \in Seq(Char), s # <<>>
    PROVE  plen(s[Len(s)], utf) <= ColumnsOf(s, utf)
<1>1. PICK k \in 1 .. Len(s) : k = Len(s) /\ SubSeq(s, 1, k) = s
  OBVIOUS
<1>2. /\ plen(s[k], utf) \in Nat /\ ColumnsOf(SubSeq(s, 1, k - 1), utf) \in Nat
      /\ ColumnsOf(SubSeq(s, 1, k), utf)
            = ColumnsOf(SubSeq(s, 1, k - 1), utf) + plen(s[k], utf)
  BY NextColumns
<1>3. plen(s[Len(s)], utf) = plen(s[k], utf) /\ ColumnsOf(s, utf) = ColumnsOf(SubSeq(s, 1, k), utf)
  BY <1>1, Zenon
<1>4. PICK a \in Nat, b \in Nat : /\ a = plen(s[k], utf)
                                 /\ b = ColumnsOf(SubSeq(s, 1, k - 1), utf)
  BY <1>2
<1>5. a <= b + a
  OBVIOUS
<1> QED BY <1>2, <1>3, <1>4, <1>5

-----------------------------------------------------------------------------
(* What is shown of the line. *)

(* The columns that s has on the screen. *)
ShownOf(s, utf, echoes) == IF echoes THEN ColumnsOf(s, utf) ELSE 0

(* What is always true of it, and what a step keeps: while the echo is not switched
   over the line is shown, and a step runs over nothing else. *)
EchoInv == TypeOK /\ LineShown
ShownSound ==
    /\ shown' \in Nat /\ lost' \in Nat /\ steady' \in BOOLEAN /\ LineShown'
    /\ steady => lost' = 0

(* Columns that are erased, of the line or past it, and then written. *)
LEMMA ErasedAndEchoed ==
    ASSUME NEW n \in Nat, NEW m \in Nat, shown \in Nat, IfEchoing(n, m)
    PROVE  /\ shown' \in Nat /\ lost' \in Nat
           /\ (ECHOING => n <= shown) => lost' = 0
           /\ ECHOING /\ n <= shown => shown' = shown - n + m
           /\ ~ECHOING => shown' = shown
BY DEF IfEchoing, bsb, Past

(* An erasure that keeps a start of the line shows as many columns fewer as it
   takes away; a character comes after them. *)
LEMMA ErasesShown ==
    ASSUME EchoInv, NEW s \in Seq(Char), Erases(s), cfg' = cfg, host' = host,
           Columns(s) <= Columns(buf)
    PROVE  ShownSound
<1>1. /\ shown \in Nat /\ steady \in BOOLEAN /\ buf \in Seq(Char)
      /\ steady => shown = ShownOf(buf, cfg.utf, ECHOING)
  BY DEF EchoInv, TypeOK, LineTypes, LineShown, Columns, ShownOf
<1>2. /\ buf' = s /\ steady' = steady
      /\ IfEchoing(ColumnsOf(buf, cfg.utf) - ColumnsOf(s, cfg.utf), 0)
  BY DEF Erases, Columns
<1>3. /\ ColumnsOf(buf, cfg.utf) \in Nat /\ ColumnsOf(s, cfg.utf) \in Nat
      /\ ColumnsOf(s, cfg.utf) <= ColumnsOf(buf, cfg.utf)
  BY <1>1, ColumnsFacts DEF Columns
<1>4. ECHOING' = ECHOING /\ cfg'.utf = cfg.utf
  BY DEF ECHOING, Wants
<1>5. PICK n \in Nat : n = ColumnsOf(buf, cfg.utf) - ColumnsOf(s, cfg.utf)
  BY <1>3
<1>6. /\ shown' \in Nat /\ lost' \in Nat
      /\ (ECHOING => n <= shown) => lost' = 0
      /\ ECHOING /\ n <= shown => shown' = shown - n + 0
      /\ ~ECHOING => shown' = shown
  BY <1>1, <1>2, <1>5, ErasedAndEchoed
<1>7. steady => lost' = 0 /\ shown' = ShownOf(s, cfg.utf, ECHOING)
  BY <1>1, <1>3, <1>5, <1>6 DEF ShownOf
<1> QED BY <1>1, <1>2, <1>4, <1>6, <1>7 DEF ShownSound, LineShown, Columns, ShownOf

LEMMA InsertsShown ==
    ASSUME EchoInv, NEW s \in Seq(Char), Inserts(s), c \in Char, cfg' = cfg, host' = host,
           Columns(s) <= Columns(buf)
    PROVE  ShownSound
<1>1. /\ shown \in Nat /\ steady \in BOOLEAN /\ buf \in Seq(Char)
      /\ steady => shown = ShownOf(buf, cfg.utf, ECHOING)
  BY DEF EchoInv, TypeOK, LineTypes, LineShown, Columns, ShownOf
<1>2. /\ buf' = Append(s, c) /\ steady' = steady
      /\ IfEchoing(ColumnsOf(buf, cfg.utf) - ColumnsOf(s, cfg.utf), plen(c, cfg.utf))
  BY DEF Inserts, Columns
<1>3. /\ ColumnsOf(buf, cfg.utf) \in Nat /\ ColumnsOf(s, cfg.utf) \in Nat
      /\ ColumnsOf(s, cfg.utf) <= ColumnsOf(buf, cfg.utf) /\ plen(c, cfg.utf) \in Nat
      /\ ColumnsOf(Append(s, c), cfg.utf) = ColumnsOf(s, cfg.utf) + plen(c, cfg.utf)
  BY <1>1, ColumnsFacts, PlenType DEF Columns
<1>4. ECHOING' = ECHOING /\ cfg'.utf = cfg.utf
  BY DEF ECHOING, Wants
<1>5. PICK n \in Nat : n = ColumnsOf(buf, cfg.utf) - ColumnsOf(s, cfg.utf)
  BY <1>3
<1>6. PICK m \in Nat : m = plen(c, cfg.utf)
  BY <1>3
<1>7. /\ shown' \in Nat /\ lost' \in Nat
      /\ (ECHOING => n <= shown) => lost' = 0
      /\ ECHOING /\ n <= shown => shown' = shown - n + m
      /\ ~ECHOING => shown' = shown
  BY <1>1, <1>2, <1>5, <1>6, ErasedAndEchoed
<1>8. steady => lost' = 0 /\ shown' = ShownOf(Append(s, c), cfg.utf, ECHOING)
  BY <1>1, <1>3, <1>5, <1>6, <1>7 DEF ShownOf
<1> QED BY <1>1, <1>2, <1>4, <1>7, <1>8 DEF ShownSound, LineShown, Columns, ShownOf

(* A line that has been sent, or dropped. *)
LEMMA ClearedShown ==
    ASSUME Cleared
    PROVE  shown' \in Nat /\ steady' \in BOOLEAN /\ LineShown'
<1>1. buf' = <<>> /\ shown' = 0 /\ steady' = TRUE
  BY DEF Cleared
<1>2. ColumnsOf(<<>>, cfg'.utf) = 0
  <2>1. PICK utf : utf = cfg'.utf
    OBVIOUS
  <2>2. <<>> \in Seq(Char)
    OBVIOUS
  <2>3. ColumnsOf(<<>>, utf) = 0
    BY <2>2, ColumnsFacts
  <2> QED BY <2>1, <2>3
<1> QED BY <1>1, <1>2 DEF LineShown, Columns

(* A line that stays as it is, with the columns that show of it. *)
LEMMA SameShown ==
    ASSUME EchoInv, buf' = buf, shown' = shown, steady' = steady,
           ECHOING' = ECHOING, cfg'.utf = cfg.utf
    PROVE  shown' \in Nat /\ steady' \in BOOLEAN /\ LineShown'
BY DEF EchoInv, TypeOK, LineShown, Columns

(* Each character of a call. *)
LEMMA EditShown ==
    ASSUME EchoInv, Edit
    PROVE  ShownSound
<1>1. LineTypes /\ buf \in Seq(Char) /\ c \in Char /\ cfg' = cfg /\ host' = host
  BY TakenType DEF EchoInv, TypeOK, LineTypes, Edit
<1>2. ECHOING' = ECHOING /\ cfg'.utf = cfg.utf
  BY <1>1 DEF ECHOING, Wants
<1>3. /\ <<>> \in Seq(Char) /\ Columns(<<>>) <= Columns(buf)
      /\ WithoutChar(buf) \in Seq(Char) /\ Columns(WithoutChar(buf)) <= Columns(buf)
      /\ WithoutWord(buf) \in Seq(Char) /\ Columns(WithoutWord(buf)) <= Columns(buf)
  <2>1. PICK n \in 0 .. Len(buf) : WithoutChar(buf) = SubSeq(buf, 1, n)
    BY <1>1, WithoutCharIsStart
  <2>2. PICK m \in 0 .. Len(buf) : WithoutWord(buf) = SubSeq(buf, 1, m)
    BY <1>1, WithoutWordIsStart
  <2>3. <<>> = SubSeq(buf, 1, 0) /\ 0 \in 0 .. Len(buf)
    BY <1>1
  <2> QED BY <1>1, <2>1, <2>2, <2>3, StartProperties, StartColumns DEF Columns
<1>4. CASE EraseChar
  BY <1>1, <1>3, <1>4, ErasesShown DEF EraseChar
<1>5. CASE EraseWord
  BY <1>1, <1>3, <1>5, ErasesShown DEF EraseWord
<1>6. CASE KillLine
  <2>1. Erases(<<>>) \/ Inserts(<<>>)
    BY <1>6 DEF KillLine
  <2> QED BY <1>1, <1>3, <2>1, ErasesShown, InsertsShown
<1>7. CASE Redraw
  <2>1. buf' = buf /\ steady' = steady /\ lost' = 0
        /\ shown' = IF ECHOING THEN Columns(buf) ELSE shown
    BY <1>7 DEF Redraw
  <2>2. Columns(buf) \in Nat /\ shown \in Nat /\ steady \in BOOLEAN /\ LineShown
    BY <1>1, ColumnsFacts DEF Columns, EchoInv, TypeOK
  <2>3. Columns(buf)' = Columns(buf)
    BY <1>2, <2>1 DEF Columns
  <2> QED BY <1>2, <2>1, <2>2, <2>3 DEF LineShown, ShownSound
<1>8. CASE Quote
  <2>1. lost' = 0 /\ buf' = buf /\ shown' = shown /\ steady' = steady
    BY <1>8 DEF Quote
  <2> QED BY <1>2, <2>1, SameShown DEF ShownSound
<1>9. CASE Logout \/ Enter
  BY <1>9, ClearedShown DEF Logout, Enter, ShownSound
<1>10. CASE LineFeed
  <2>1. /\ Cleared /\ buf # <<>> /\ buf[Len(buf)] = "^M"
        /\ lost' = IF ECHOING THEN Past(plen("^M", cfg.utf), shown) ELSE 0
    BY <1>10 DEF LineFeed, RawNewline, Last
  <2>2. plen("^M", cfg.utf) \in Nat /\ shown \in Nat
    BY PlenType DEF EchoInv, TypeOK, Char, Control
  <2>3. steady /\ ECHOING => plen("^M", cfg.utf) <= shown
    BY <1>1, <2>1, LastColumns DEF EchoInv, LineShown, Columns
  <2>4. lost' \in Nat /\ (steady => lost' = 0)
    BY <2>1, <2>2, <2>3 DEF Past
  <2> QED BY <2>1, <2>4, ClearedShown DEF ShownSound
<1>11. CASE Insert
  <2>1. Inserts(buf) /\ Columns(buf) <= Columns(buf)
    BY <1>1, <1>11, ColumnsFacts DEF Insert, Columns
  <2> QED BY <1>1, <2>1, InsertsShown
<1> QED
  BY <1>4, <1>5, <1>6, <1>7, <1>8, <1>9, <1>10, <1>11 DEF Edit

(* The options change: the echo is only switched over in an empty line, or the line
   is no longer shown right until its end. *)
LEMMA ChangedShown ==
    ASSUME EchoInv, SetOption \/ Reconfigure
    PROVE  ShownSound
<1>1. Changed /\ cfg'.utf = cfg.utf
  BY DEF SetOption, Reconfigure
<1>2. /\ buf' = buf /\ steady' = (steady /\ (buf = <<>> \/ ECHOING' = ECHOING))
      /\ shown' = shown /\ lost' = 0
  BY <1>1 DEF Changed
<1>3. shown \in Nat /\ (steady => shown = IF ECHOING THEN Columns(buf) ELSE 0)
  BY DEF EchoInv, TypeOK, LineShown
<1>4. Columns(buf)' = Columns(buf)
  BY <1>1, <1>2 DEF Columns
<1>5. CASE steady'
  <2>1. steady /\ (buf = <<>> \/ ECHOING' = ECHOING)
    BY <1>2, <1>5
  <2>2. buf = <<>> => Columns(buf) = 0
    <3>1. <<>> \in Seq(Char)
      OBVIOUS
    <3> QED BY <3>1, ColumnsFacts DEF Columns
  <2>3. shown' = IF ECHOING' THEN Columns(buf)' ELSE 0
    BY <1>2, <1>3, <1>4, <2>1, <2>2
  <2> QED BY <1>2, <1>3, <2>1, <2>3 DEF LineShown, ShownSound
<1>6. CASE ~steady'
  BY <1>2, <1>3, <1>6 DEF LineShown, ShownSound
<1> QED BY <1>5, <1>6

(* What a step may run over while the echo is not switched over. *)
StepErasesOwn ==
    steady /\ lost' # 0 => ~ECHOING /\ ~EDITING /\ lost' = Columns(buf)

(* A string that is not edited: what was kept of the line goes, and with the echo
   on as many columns as it has. *)
LEMMA SendShown ==
    ASSUME EchoInv, NEW k \in Calls, ldisc_send(k)
    PROVE  /\ shown' \in Nat /\ lost' \in Nat /\ steady' \in BOOLEAN /\ LineShown'
           /\ StepErasesOwn
<1>1. ECHOING' = ECHOING /\ cfg'.utf = cfg.utf
  BY DEF ldisc_send, ECHOING, Wants
<1>2. CASE EDITING
  <2>1. lost' = 0 /\ buf' = buf /\ shown' = shown /\ steady' = steady
    BY <1>2 DEF ldisc_send
  <2> QED BY <1>1, <2>1, SameShown DEF StepErasesOwn
<1>3. CASE ~EDITING
  <2>1. Cleared /\ lost' = Past(Columns(buf), shown)
    BY <1>3 DEF ldisc_send
  <2>2. /\ Columns(buf) \in Nat /\ shown \in Nat
        /\ steady => shown = IF ECHOING THEN Columns(buf) ELSE 0
    BY ColumnsFacts DEF EchoInv, TypeOK, LineTypes, LineShown, Columns
  <2>3. lost' \in Nat /\ StepErasesOwn
    BY <1>3, <2>1, <2>2 DEF StepErasesOwn, Past
  <2> QED BY <2>1, <2>3, ClearedShown
<1> QED BY <1>2, <1>3

(* Every step. *)
LEMMA StepShown ==
    ASSUME EchoInv, [Next]_vars
    PROVE  EchoInv' /\ (StepErasesOwn \/ UNCHANGED vars)
<1>1. LineTypes'
  BY StepTypes DEF EchoInv, TypeOK
<1>2. /\ shown' \in Nat /\ lost' \in Nat /\ steady' \in BOOLEAN /\ LineShown'
      /\ StepErasesOwn \/ UNCHANGED vars
  <2>1. CASE Send
    <3>1. PICK k \in Calls : ldisc_send(k)
      BY <2>1 DEF Send, ldisc_send_bin
    <3> QED BY <3>1, SendShown
  <2>2. CASE Edit
    BY <2>2, EditShown DEF ShownSound, StepErasesOwn
  <2>3. CASE SetOption \/ Reconfigure
    BY <2>3, ChangedShown DEF ShownSound, StepErasesOwn
  <2>4. CASE Restart
    BY <2>4, ClearedShown DEF Restart, StepErasesOwn
  <2>5. CASE UNCHANGED vars
    <3>1. ECHOING' = ECHOING /\ cfg'.utf = cfg.utf
      BY <2>5 DEF vars, ECHOING, Wants
    <3> QED BY <2>5, <3>1, SameShown DEF vars, EchoInv, TypeOK
  <2> QED BY <2>1, <2>2, <2>3, <2>4, <2>5 DEF Next
<1> QED BY <1>1, <1>2 DEF EchoInv, TypeOK

(* However the line is typed, pasted, erased, redrawn and sent, and whenever host
   and user switch editing over, a line whose echo is not switched over in the
   middle shows in full or, with the echo off, not at all, and no way to erase
   runs over anything else, but for the one exception of ErasesOwn: the flush of
   an unechoed line (ldisc_send()). *)
THEOREM EchoedLineShows == Spec => EchoIsLine
<1>1. Init => EchoInv
  <2> SUFFICES ASSUME Init PROVE EchoInv
    OBVIOUS
  <2>1. <<>> \in Seq(Char) /\ buf = <<>> /\ shown = 0 /\ lost = 0 /\ steady = TRUE
    BY DEF Init
  <2>2. Columns(buf) = 0
    BY <2>1, ColumnsFacts DEF Columns
  <2> QED BY <2>1, <2>2, InitTypes DEF EchoInv, TypeOK, LineShown
<1>2. EchoInv /\ [Next]_vars => EchoInv'
  BY StepShown
<1>3. EchoInv /\ [Next]_vars =>
        [steady /\ lost' # 0 => ~ECHOING /\ ~EDITING /\ lost' = Columns(buf)]_vars
  BY StepShown DEF StepErasesOwn
<1>4. EchoInv => TypeOK /\ LineShown
  BY DEF EchoInv
<1> QED BY <1>1, <1>2, <1>3, <1>4, PTL DEF Spec, EchoIsLine, ErasesOwn

-----------------------------------------------------------------------------
(* What the host hears of the mouse. *)

Buttons == {"LEFT", "MIDDLE", "RIGHT", "WHEEL_UP", "WHEEL_DOWN"}
Downs == Buttons \union {Pointer!NoButton}
Heard == Buttons \union {"RELEASE"}

(* Reports q and the button d that is down after them: no press twice on end, and
   the last press is of the button that is down. *)
Told(q, d) ==
    /\ q \in Seq(Heard) /\ d \in Downs
    /\ \A i \in 1 .. Len(q) - 1 : q[i] = q[i + 1] => q[i] = "RELEASE"
    /\ Len(q) > 0 /\ q[Len(q)] # "RELEASE" => d = q[Len(q)]
Sound(r) == r \in [sent : Seq(Heard), down : Downs] /\ Told(r.sent, r.down)
Current == [sent |-> reports, down |-> mouse_is_down]

(* A release, or a press of a button that is not down, may follow. *)
LEMMA NextTold ==
    ASSUME NEW q, NEW d, Told(q, d), NEW x \in Heard, NEW e \in Downs,
           x = "RELEASE" \/ (x # d /\ e = x)
    PROVE  Told(Append(q, x), e)
<1> DEFINE n == Len(q)
           p == Append(q, x)
<1>1. n \in Nat /\ q \in Seq(Heard)
  BY DEF Told
<1>2. p \in Seq(Heard) /\ Len(p) = n + 1 /\ p[n + 1] = x /\ \A i \in 1 .. n : p[i] = q[i]
  BY <1>1
<1> HIDE DEF n, p
<1>3. ASSUME NEW i \in 1 .. n, p[i] = p[i + 1] PROVE p[i] = "RELEASE"
  <2>1. CASE i < n
    <3>1. i \in 1 .. n - 1 /\ i + 1 \in 1 .. n
      BY <1>1, <2>1
    <3> QED BY <1>2, <1>3, <3>1 DEF Told, n
  <2>2. CASE i = n
    <3>1. q[n] = x /\ p[i] = x
      BY <1>2, <1>3, <2>2
    <3>2. x # "RELEASE" => d = x
      BY <1>1, <1>3, <3>1 DEF Told, n
    <3> QED BY <3>1, <3>2
  <2> QED BY <1>1, <2>1, <2>2
<1>4. Len(p) - 1 = n
  BY <1>1, <1>2
<1> QED BY <1>1, <1>2, <1>3, <1>4 DEF Told, p

(* So may whatever a press or a release reports, and what a turn of the wheel does. *)
LEMMA ReportedSound ==
    ASSUME NEW r, Sound(r), NEW b \in Buttons, NEW a \in {"CLICK", "RELEASE"}
    PROVE  Sound(Pointer!Reported(r, b, a))
<1> DEFINE q == r.sent
           d == r.down
<1>1. q \in Seq(Heard) /\ d \in Downs /\ Told(q, d) /\ "RELEASE" \in Heard /\ b \in Heard
  BY DEF Sound, Heard
<1>2. Pointer!NoButton \in Downs /\ b \in Downs
  BY DEF Downs
<1>3. CASE a = "RELEASE"
  <2>1. Pointer!Reported(r, b, a) = [sent |-> Append(q, "RELEASE"), down |-> Pointer!NoButton]
    BY <1>3 DEF Pointer!Reported
  <2>2. Told(Append(q, "RELEASE"), Pointer!NoButton)
    BY <1>1, <1>2, NextTold
  <2> HIDE DEF q
  <2>3. Append(q, "RELEASE") \in Seq(Heard)
    BY <2>2 DEF Told
  <2> QED BY <1>2, <2>1, <2>2, <2>3 DEF Sound
<1>4. CASE a = "CLICK" /\ d = b
  BY <1>4 DEF Pointer!Reported
<1>5. CASE a = "CLICK" /\ d # b
  <2>1. Pointer!Reported(r, b, a) = [sent |-> Append(q, b), down |-> b]
    BY <1>5 DEF Pointer!Reported
  <2>2. Told(Append(q, b), b)
    BY <1>1, <1>2, <1>5, NextTold
  <2> HIDE DEF q
  <2>3. Append(q, b) \in Seq(Heard)
    BY <2>2 DEF Told
  <2> QED BY <1>2, <2>1, <2>2, <2>3 DEF Sound
<1> QED BY <1>3, <1>4, <1>5

(* A turn of the wheel is a press of its own, and is told in turn. *)
LEMMA NotchedSound ==
    ASSUME NEW r, Sound(r), NEW b \in Buttons
    PROVE  Sound(Pointer!Notched(r, b))
<1>1. PICK e : e = Pointer!Reported(r, b, "CLICK")
  OBVIOUS
<1>2. Sound(e)
  BY <1>1, ReportedSound
<1> QED BY <1>1, <1>2, ReportedSound DEF Pointer!Notched

(* f goes through m notches of the wheel. *)
Rolls(f, r, b, m) ==
    f = [k \in 0 .. m |-> IF k = 0 THEN r ELSE Pointer!Notched(f[k - 1], b)]

(* There is such a function for every number of notches. *)
LEMMA RollsExists ==
    ASSUME NEW r, NEW b, NEW m \in Nat
    PROVE  \E f : Rolls(f, r, b, m)
<1> DEFINE B == {k \in Nat : ~\E f : Rolls(f, r, b, k)}
<1>1. SUFFICES ASSUME B # {} PROVE FALSE
  OBVIOUS
<1>2. PICK k \in B : \A j \in B : k <= j
  BY <1>1, LeastOf
<1>3. k # 0
  <2> DEFINE f == [n \in 0 .. 0 |-> r]
  <2>1. Rolls(f, r, b, 0)
    BY DEF Rolls
  <2> QED BY <2>1
<1>4. k \in Nat /\ k - 1 \in Nat /\ k - 1 \notin B
  BY <1>2, <1>3
<1>5. PICK g : Rolls(g, r, b, k - 1)
  BY <1>4
<1> DEFINE f == [n \in 0 .. k |-> IF n = k THEN Pointer!Notched(g[k - 1], b) ELSE g[n]]
<1>7. ASSUME NEW n \in 0 .. k
      PROVE  f[n] = IF n = 0 THEN r ELSE Pointer!Notched(f[n - 1], b)
  <2>1. CASE n = k
    <3>1. f[n] = Pointer!Notched(g[k - 1], b) /\ f[n - 1] = g[k - 1]
      BY <1>4, <2>1
    <3> QED BY <1>3, <2>1, <3>1
  <2>2. CASE n # k
    <3>1. n \in 0 .. k - 1 /\ f[n] = g[n]
      BY <1>4, <2>2
    <3>2. n # 0 => n - 1 \in 0 .. k /\ n - 1 # k /\ f[n - 1] = g[n - 1]
      BY <1>4, <2>2
    <3>3. g[n] = IF n = 0 THEN r ELSE Pointer!Notched(g[n - 1], b)
      BY <1>5, <3>1 DEF Rolls
    <3> QED BY <3>1, <3>2, <3>3
  <2> QED BY <2>1, <2>2
<1>8. Rolls(f, r, b, k)
  <2> DEFINE h == [n \in 0 .. k |-> IF n = 0 THEN r ELSE Pointer!Notched(f[n - 1], b)]
  <2>1. DOMAIN f = 0 .. k /\ DOMAIN h = 0 .. k /\ \A n \in 0 .. k : f[n] = h[n]
    BY <1>7
  <2>2. f = h
    <3>1. f = [n \in 0 .. k |-> f[n]] /\ h = [n \in 0 .. k |-> h[n]]
      OBVIOUS
    <3> HIDE DEF f, h
    <3> QED BY <2>1, <3>1
  <2> HIDE DEF f
  <2> QED BY <2>2 DEF Rolls
<1> HIDE DEF f
<1> QED BY <1>2, <1>8

(* However far the wheel is turned. *)
LEMMA WheeledSound ==
    ASSUME NEW r, Sound(r), NEW b \in Buttons, NEW m \in Nat
    PROVE  Sound(Pointer!Wheeled(r, b, m))
<1> DEFINE Q(f) == f = [k \in 0 .. m |-> IF k = 0 THEN r ELSE Pointer!Notched(f[k - 1], b)]
           f == CHOOSE h : Q(h)
<1>1. PICK g : Rolls(g, r, b, m)
  BY RollsExists
<1>2. Q(f)
  <2>1. Q(g)
    BY <1>1 DEF Rolls
  <2> QED BY <2>1
<1>3. Pointer!Wheeled(r, b, m) = f[m]
  BY DEF Pointer!Wheeled
<1> HIDE DEF f
<1>4. \A k \in 0 .. m : f[k] = IF k = 0 THEN r ELSE Pointer!Notched(f[k - 1], b)
  BY <1>2
<1> DEFINE B == {k \in 0 .. m : ~Sound(f[k])}
<1>5. ASSUME B # {} PROVE FALSE
  <2>1. PICK k \in B : \A j \in B : k <= j
    <3>1. B \subseteq Nat
      OBVIOUS
    <3> QED BY <1>5, <3>1, LeastOf
  <2>2. k # 0
    BY <1>4
  <2>3. k \in 0 .. m /\ k - 1 \in 0 .. m /\ k - 1 \notin B
    BY <2>1, <2>2
  <2>4. Sound(f[k - 1]) /\ f[k] = Pointer!Notched(f[k - 1], b)
    BY <1>4, <2>2, <2>3
  <2>5. Sound(f[k])
    BY <2>4, NotchedSound
  <2> QED BY <2>5
<1>6. m \in 0 .. m
  OBVIOUS
<1> QED BY <1>3, <1>5, <1>6

(* A turn of the wheel: whole notches, and what is left over. *)
LEMMA QuotientFacts ==
    ASSUME NEW d \in Nat, d > 0, NEW t \in Nat
    PROVE  /\ t \div d \in Nat
           /\ 0 <= t - (t \div d) * d /\ t - (t \div d) * d < d
OBVIOUS

(* Dividing by WHEEL_DELTA: what is left over is less. *)
LEMMA NotchFacts ==
    ASSUME WHEEL_DELTA \in Nat \ {0}, NEW t \in Int
    PROVE  /\ Pointer!Notches(t) \in Int
           /\ t - Pointer!Notches(t) * WHEEL_DELTA \in 1 - WHEEL_DELTA .. WHEEL_DELTA - 1
<1> DEFINE d == WHEEL_DELTA
<1>1. CASE t > 0
  <2>1. PICK q \in Nat : q = t \div d
    BY <1>1, QuotientFacts
  <2>2. 0 <= t - q * d /\ t - q * d < d
    BY <1>1, <2>1, QuotientFacts
  <2>3. Pointer!Notches(t) = q
    BY <1>1, <2>1 DEF Pointer!Notches
  <2>4. PICK v \in Int : v = t - q * d
    OBVIOUS
  <2>5. v \in 1 - d .. d - 1
    BY <2>2, <2>4
  <2> QED BY <2>3, <2>4, <2>5
<1>2. CASE ~(t > 0)
  <2>0. PICK s \in Nat : s = -t
    BY <1>2
  <2>1. PICK q \in Nat : q = s \div d
    BY QuotientFacts
  <2>2. 0 <= s - q * d /\ s - q * d < d
    BY <2>1, QuotientFacts
  <2>3. Pointer!Notches(t) = -q
    BY <1>2, <2>0, <2>1 DEF Pointer!Notches
  <2>4. PICK v \in Int : v = s - q * d
    OBVIOUS
  <2>5. t - (-q) * d = -v
    BY <2>0, <2>4
  <2>6. -v \in 1 - d .. d - 1
    BY <2>2, <2>4
  <2>7. -q \in Int
    OBVIOUS
  <2> QED BY <2>3, <2>5, <2>6, <2>7
<1> QED BY <1>1, <1>2

(* What holds of the mouse at all times: the window's flag is the terminal's, unless
   the user wants no mouse reports; what is left of the wheel's turns is less than a
   line; and the reports are those of one button at a time. *)
MouseInv ==
    /\ mouse_cfg \in MouseConfigs
    /\ mode \in [xterm_mouse : BOOLEAN, send_raw_mouse : BOOLEAN]
    /\ mode.send_raw_mouse <=> (mode.xterm_mouse /\ ~mouse_cfg.no_mouse_rep)
    /\ held \subseteq {"LEFT", "MIDDLE", "RIGHT"}
    /\ wheel \in [accumulator : Int, turned : Int, lines : Int, messages : Int]
    /\ Pointer!WheelIsExact
    /\ Sound(Current)

(* While the user selects, the host hears nothing. *)
Quiet == sel.state = "DRAGGING" => reports' = reports

LEMMA SameReports ==
    ASSUME Sound(Current), UNCHANGED <<reports, mouse_is_down>>
    PROVE  Sound(Current)' /\ Quiet
BY DEF Current, Sound, Told, Quiet

(* A report of a button, as Sound allows it. *)
LEMMA ReportKeeps ==
    ASSUME Sound(Current), NEW b \in Buttons, NEW a \in {"CLICK", "RELEASE"},
           Pointer!Report(b, a)
    PROVE  Sound(Current)'
<1>1. PICK r : r = Pointer!Reported(Current, b, a)
  OBVIOUS
<1>2. Sound(r)
  BY <1>1, ReportedSound
<1>3. CASE session
  <2>1. reports' = r.sent /\ mouse_is_down' = r.down
    BY <1>1, <1>3 DEF Pointer!Report, Current
  <2>2. r = [sent |-> r.sent, down |-> r.down]
    BY <1>2 DEF Sound
  <2>3. Current' = r
    BY <2>1, <2>2 DEF Current
  <2>4. Sound(Current')
    BY <1>2, <2>3
  <2> QED BY <2>4 DEF Sound, Told
<1>4. CASE ~session
  BY <1>4, SameReports DEF Pointer!Report
<1> QED BY <1>3, <1>4

(* term_mouse() reports presses and releases only, and nothing during a selection. *)
LEMMA TermMouseKeeps ==
    ASSUME Sound(Current), NEW b \in Buttons, NEW a, NEW shift,
           Pointer!ForHost(shift) => a \in {"CLICK", "RELEASE"},
           Pointer!term_mouse(b, a, shift)
    PROVE  Sound(Current)' /\ Quiet
<1>1. CASE Pointer!ForHost(shift)
  <2>1. Sound(Current)'
    BY <1>1, ReportKeeps DEF Pointer!term_mouse
  <2>2. sel.state # "DRAGGING"
    BY <1>1 DEF Pointer!ForHost
  <2> QED BY <2>1, <2>2 DEF Quiet
<1>2. CASE ~Pointer!ForHost(shift)
  BY <1>2, SameReports DEF Pointer!term_mouse
<1> QED BY <1>1, <1>2

(* click() counts clicks only where the press is not reported. *)
LEMMA ClickKeeps ==
    ASSUME MouseInv, NEW b \in Buttons, NEW shift, NEW soon, Pointer!Click(b, shift, soon)
    PROVE  Sound(Current)' /\ Quiet
<1>1. Sound(Current)
  BY DEF MouseInv
<1>2. Pointer!ForHost(shift) => Pointer!RawMouse(mode.send_raw_mouse, shift)
  BY DEF MouseInv, Pointer!ForHost, Pointer!RawMouse
<1>3. CASE Pointer!RawMouse(mode.send_raw_mouse, shift)
  <2>1. Pointer!term_mouse(b, "CLICK", shift)
    BY <1>3 DEF Pointer!Click
  <2> QED BY <1>1, <2>1, TermMouseKeeps
<1>4. CASE ~Pointer!RawMouse(mode.send_raw_mouse, shift)
  <2>1. PICK a : Pointer!term_mouse(b, a, shift)
    BY <1>4 DEF Pointer!Click
  <2> QED BY <1>1, <1>2, <1>4, <2>1, TermMouseKeeps
<1> QED BY <1>3, <1>4

(* The wheel: what was turned before and what is turned now. *)
LEMMA WheelArithmetic ==
    ASSUME NEW d \in Int, NEW t \in Int, NEW l \in Int, NEW a \in Int, t = l * d + a,
           NEW x \in Int, NEW n \in Int
    PROVE  t + x = (l + n) * d + ((a + x) - n * d)
OBVIOUS

(* The wheel turns. *)
LEMMA WheelKeeps ==
    ASSUME MouseInv, Pointer!MouseAssumption, Pointer!MouseWheel
    PROVE  /\ wheel' \in [accumulator : Int, turned : Int, lines : Int, messages : Int]
           /\ Pointer!WheelIsExact' /\ Sound(Current)' /\ Quiet
<1>1. PICK turn \in Turns, shift \in BOOLEAN :
         LET total == wheel.accumulator + turn
             n == Pointer!Notches(total)
             size == IF n > 0 THEN n ELSE -n
             b == IF n > 0 THEN "WHEEL_UP" ELSE "WHEEL_DOWN"
             r == Pointer!Wheeled([sent |-> reports, down |-> mouse_is_down], b, size)
         IN /\ wheel' = [accumulator |-> total - n * WHEEL_DELTA,
                         turned |-> wheel.turned + turn,
                         lines |-> wheel.lines + n, messages |-> wheel.messages + 1]
            /\ IF /\ Pointer!RawMouse(mode.send_raw_mouse, shift)
                  /\ Pointer!ForHost(shift) /\ session
               THEN reports' = r.sent /\ mouse_is_down' = r.down
               ELSE UNCHANGED <<reports, mouse_is_down>>
  BY DEF Pointer!MouseWheel
<1>2. /\ WHEEL_DELTA \in Nat \ {0} /\ turn \in Int
      /\ wheel \in [accumulator : Int, turned : Int, lines : Int, messages : Int]
      /\ wheel.turned = wheel.lines * WHEEL_DELTA + wheel.accumulator
      /\ Sound(Current)
  BY DEF MouseInv, Pointer!MouseAssumption, Pointer!WheelIsExact
<1>3. PICK total \in Int : total = wheel.accumulator + turn
  BY <1>2
<1>4. PICK n \in Int : n = Pointer!Notches(total)
  BY <1>2, NotchFacts
<1>5. PICK rest \in Int : rest = total - n * WHEEL_DELTA
  BY <1>2
<1>6. rest \in 1 - WHEEL_DELTA .. WHEEL_DELTA - 1
  BY <1>2, <1>4, <1>5, NotchFacts
<1>7. wheel' = [accumulator |-> rest, turned |-> wheel.turned + turn,
                lines |-> wheel.lines + n, messages |-> wheel.messages + 1]
  BY <1>1, <1>3, <1>4, <1>5
<1>8. wheel' \in [accumulator : Int, turned : Int, lines : Int, messages : Int]
  BY <1>2, <1>7
<1>9. Pointer!WheelIsExact'
  <2>1. PICK d \in Int, t \in Int, l \in Int, a \in Int :
           d = WHEEL_DELTA /\ t = wheel.turned /\ l = wheel.lines /\ a = wheel.accumulator
    BY <1>2
  <2>2. t + turn = (l + n) * d + ((a + turn) - n * d)
    BY <1>2, <2>1, WheelArithmetic
  <2>3. wheel'.turned = t + turn /\ wheel'.lines = l + n /\ wheel'.accumulator = rest
    BY <1>7, <2>1
  <2>4. rest = (a + turn) - n * d
    BY <1>3, <1>5, <2>1
  <2>5. wheel'.turned = wheel'.lines * WHEEL_DELTA + wheel'.accumulator
    BY <2>1, <2>2, <2>3, <2>4
  <2> QED BY <1>6, <2>3, <2>5 DEF Pointer!WheelIsExact
<1>10. PICK size \in Nat : size = IF n > 0 THEN n ELSE -n
  OBVIOUS
<1>11. PICK b \in Buttons : b = IF n > 0 THEN "WHEEL_UP" ELSE "WHEEL_DOWN"
  BY DEF Buttons
<1>12. PICK r : r = Pointer!Wheeled(Current, b, size)
  OBVIOUS
<1>13. Sound(r)
  BY <1>2, <1>12, WheeledSound
<1>14. IF /\ Pointer!RawMouse(mode.send_raw_mouse, shift)
          /\ Pointer!ForHost(shift) /\ session
       THEN reports' = r.sent /\ mouse_is_down' = r.down
       ELSE UNCHANGED <<reports, mouse_is_down>>
  BY <1>1, <1>3, <1>4, <1>10, <1>11, <1>12 DEF Current
<1>15. CASE UNCHANGED <<reports, mouse_is_down>>
  BY <1>2, <1>8, <1>9, <1>15, SameReports
<1>16. CASE reports' = r.sent /\ mouse_is_down' = r.down /\ Pointer!ForHost(shift)
  <2>1. Current' = r
    <3>1. r = [sent |-> r.sent, down |-> r.down]
      BY <1>13 DEF Sound
    <3> QED BY <1>16, <3>1 DEF Current
  <2>2. Sound(Current')
    BY <1>13, <2>1
  <2>3. Sound(Current)'
    BY <2>2 DEF Sound, Told
  <2>4. Quiet
    BY <1>16 DEF Quiet, Pointer!ForHost
  <2> QED BY <1>8, <1>9, <2>3, <2>4
<1> QED BY <1>14, <1>15, <1>16

(* Every step of the mouse. *)
LEMMA MouseInit ==
    ASSUME Pointer!MouseAssumption, Pointer!Init
    PROVE  MouseInv
<1>1. /\ mouse_cfg \in MouseConfigs /\ held = {}
      /\ mode = [xterm_mouse |-> FALSE, send_raw_mouse |-> FALSE]
      /\ mouse_is_down = Pointer!NoButton /\ reports = <<>>
      /\ wheel = [accumulator |-> 0, turned |-> 0, lines |-> 0, messages |-> 0]
  BY DEF Pointer!Init
<1>2. /\ mode \in [xterm_mouse : BOOLEAN, send_raw_mouse : BOOLEAN]
      /\ mode.send_raw_mouse <=> (mode.xterm_mouse /\ ~mouse_cfg.no_mouse_rep)
  BY <1>1
<1>3. /\ wheel \in [accumulator : Int, turned : Int, lines : Int, messages : Int]
      /\ Pointer!WheelIsExact
  <2>1. PICK d \in Nat : d = WHEEL_DELTA /\ d > 0
    BY DEF Pointer!MouseAssumption
  <2>2. 0 = 0 * d + 0 /\ 0 \in 1 - d .. d - 1
    BY <2>1
  <2> QED BY <1>1, <2>1, <2>2 DEF Pointer!WheelIsExact
<1>4. Sound(Current)
  <2>1. reports \in Seq(Heard) /\ Len(reports) = 0
    BY <1>1
  <2>2. mouse_is_down \in Downs
    BY <1>1 DEF Downs
  <2>3. Told(reports, mouse_is_down)
    BY <2>1, <2>2 DEF Told
  <2> QED BY <2>1, <2>2, <2>3 DEF Sound, Current
<1> QED BY <1>1, <1>2, <1>3, <1>4 DEF MouseInv

(* All steps of the mouse together. *)
LEMMA MouseStepKeeps ==
    ASSUME MouseInv, Pointer!MouseAssumption, Pointer!Next
    PROVE  MouseInv' /\ Quiet
<1>1. /\ mouse_cfg \in MouseConfigs
      /\ mode \in [xterm_mouse : BOOLEAN, send_raw_mouse : BOOLEAN]
      /\ mode.send_raw_mouse <=> (mode.xterm_mouse /\ ~mouse_cfg.no_mouse_rep)
      /\ held \subseteq {"LEFT", "MIDDLE", "RIGHT"}
      /\ wheel \in [accumulator : Int, turned : Int, lines : Int, messages : Int]
      /\ Pointer!WheelIsExact /\ Sound(Current)
  BY DEF MouseInv
<1>2. mouse_cfg' = mouse_cfg
  BY DEF Pointer!Next, Pointer!Press, Pointer!PressRight, Pointer!PressForMenu,
         Pointer!Release, Pointer!ReleaseOutside, Pointer!LoseCapture, Pointer!MouseMove,
         Pointer!MouseWheel, Pointer!SetMouse, Pointer!HostWrites, Pointer!Session
<1>3. held' \subseteq {"LEFT", "MIDDLE", "RIGHT"}
  BY <1>1 DEF Pointer!Next, Pointer!Press, Pointer!PressRight, Pointer!PressForMenu,
         Pointer!Release, Pointer!ReleaseOutside, Pointer!LoseCapture, Pointer!MouseMove,
         Pointer!MouseWheel, Pointer!SetMouse, Pointer!HostWrites, Pointer!Session
<1>4. /\ mode' \in [xterm_mouse : BOOLEAN, send_raw_mouse : BOOLEAN]
      /\ mode'.send_raw_mouse <=> (mode'.xterm_mouse /\ ~mouse_cfg.no_mouse_rep)
  <2>1. CASE Pointer!SetMouse
    BY <1>1, <2>1 DEF Pointer!SetMouse
  <2>2. CASE mode' = mode
    BY <1>1, <2>2
  <2>3. Pointer!SetMouse \/ mode' = mode
    BY DEF Pointer!Next, Pointer!Press, Pointer!PressRight, Pointer!PressForMenu,
         Pointer!Release, Pointer!ReleaseOutside, Pointer!LoseCapture, Pointer!MouseMove,
         Pointer!MouseWheel, Pointer!HostWrites, Pointer!Session
  <2> QED BY <2>1, <2>2, <2>3
<1>5. /\ wheel' \in [accumulator : Int, turned : Int, lines : Int, messages : Int]
      /\ Pointer!WheelIsExact'
  <2>1. CASE Pointer!MouseWheel
    BY <2>1, WheelKeeps
  <2>2. CASE wheel' = wheel
    BY <1>1, <2>2 DEF Pointer!WheelIsExact
  <2>3. Pointer!MouseWheel \/ wheel' = wheel
    BY DEF Pointer!Next, Pointer!Press, Pointer!PressRight, Pointer!PressForMenu,
         Pointer!Release, Pointer!ReleaseOutside, Pointer!LoseCapture, Pointer!MouseMove,
         Pointer!SetMouse, Pointer!HostWrites, Pointer!Session
  <2> QED BY <2>1, <2>2, <2>3
<1>6. Sound(Current)' /\ Quiet
  <2>1. CASE Pointer!Press
    <3>1. PICK b \in {"LEFT", "MIDDLE"} \ held, shift \in BOOLEAN, soon \in BOOLEAN :
             Pointer!Click(b, shift, soon)
      BY <2>1 DEF Pointer!Press
    <3>2. b \in Buttons
      BY DEF Buttons
    <3> QED BY <3>1, <3>2, ClickKeeps
  <2>2. CASE Pointer!PressRight
    <3>1. PICK shift \in BOOLEAN : Pointer!term_mouse("RIGHT", "RELEASE", shift)
      BY <2>2 DEF Pointer!PressRight
    <3>2. "RIGHT" \in Buttons
      BY DEF Buttons
    <3> QED BY <1>1, <3>1, <3>2, TermMouseKeeps
  <2>3. CASE Pointer!Release
    <3>1. PICK b \in held, shift \in BOOLEAN : Pointer!term_mouse(b, "RELEASE", shift)
      BY <2>3 DEF Pointer!Release
    <3>2. b \in Buttons
      BY <1>1 DEF Buttons
    <3> QED BY <1>1, <3>1, <3>2, TermMouseKeeps
  <2>4. CASE Pointer!MouseWheel
    BY <2>4, WheelKeeps
  <2>5. CASE UNCHANGED <<reports, mouse_is_down>>
    BY <1>1, <2>5, SameReports
  <2>6. \/ Pointer!Press \/ Pointer!PressRight \/ Pointer!Release \/ Pointer!MouseWheel
        \/ UNCHANGED <<reports, mouse_is_down>>
    BY DEF Pointer!Next, Pointer!PressForMenu, Pointer!ReleaseOutside,
         Pointer!LoseCapture, Pointer!MouseMove, Pointer!SetMouse, Pointer!HostWrites,
         Pointer!Session
  <2> QED BY <2>1, <2>2, <2>3, <2>4, <2>5, <2>6
<1> QED BY <1>1, <1>2, <1>3, <1>4, <1>5, <1>6 DEF MouseInv

(* The properties of the mouse that the behaviours of the user's side have, and the
   steps of the other parts, which leave the mouse alone. *)
MouseHeld == part = "mouse" => MouseInv

LEMMA UserStepMouse ==
    ASSUME MouseHeld, [LineStep \/ MouseStep \/ ClipStep \/ SizeStep]_allVars
    PROVE  MouseHeld' /\ (part = "mouse" => Quiet)
<1>1. CASE MouseStep
  <2>1. part = "mouse" /\ Pointer!Next
    BY <1>1 DEF MouseStep
  <2>2. MouseInv' /\ Quiet
    BY <2>1, MouseStepKeeps, InstancesAssumption DEF MouseHeld
  <2> QED BY <2>2 DEF MouseHeld
<1>2. CASE LineStep \/ ClipStep \/ SizeStep
  <2>1. part # "mouse" /\ part' = part
    BY <1>2 DEF LineStep, ClipStep, SizeStep
  <2> QED BY <2>1 DEF MouseHeld
<1>3. CASE UNCHANGED allVars
  <2>1. part' = part /\ UNCHANGED <<mouse_cfg, mode, held, wheel, reports, mouse_is_down>>
    BY <1>3 DEF allVars, mouseVars
  <2>2. MouseInv => MouseInv'
    <3> SUFFICES ASSUME MouseInv PROVE MouseInv'
      OBVIOUS
    <3>1. Sound(Current)'
      BY <2>1, SameReports DEF MouseInv
    <3>2. Pointer!WheelIsExact'
      BY <2>1 DEF MouseInv, Pointer!WheelIsExact
    <3> QED BY <2>1, <3>1, <3>2 DEF MouseInv
  <2> QED BY <2>1, <2>2 DEF MouseHeld, Quiet
<1> QED BY <1>1, <1>2, <1>3

(* Whatever the buttons, the wheel, the shift key and the modes the host sets, and
   wherever presses and releases go unheard: no button is reported pressed twice on
   end, the wheel is worth exactly what it was turned, for lines of any number of
   units, and a selection in progress is the user's alone. *)
THEOREM MouseIsShared == UserSpec => MouseShared
<1>1. UserInit => MouseHeld
  <2> SUFFICES ASSUME UserInit, part = "mouse" PROVE MouseInv
    BY DEF MouseHeld
  <2>1. Pointer!Init
    BY DEF UserInit
  <2> QED BY <2>1, MouseInit, InstancesAssumption
<1>2. MouseHeld /\ [LineStep \/ MouseStep \/ ClipStep \/ SizeStep]_allVars => MouseHeld'
  BY UserStepMouse
<1>3. MouseHeld => (part = "mouse" => Pointer!PressesInTurn /\ Pointer!WheelIsExact)
  BY DEF MouseHeld, MouseInv, Sound, Current, Told, Pointer!PressesInTurn
<1>4. MouseHeld /\ [LineStep \/ MouseStep \/ ClipStep \/ SizeStep]_allVars =>
         [part = "mouse" /\ sel.state = "DRAGGING" => reports' = reports]_allVars
  BY UserStepMouse DEF Quiet
<1> QED BY <1>1, <1>2, <1>3, <1>4, PTL DEF UserSpec, MouseShared
=============================================================================
