-------------------------- MODULE TermScreenProofs --------------------------
(***************************************************************************)
(* Proofs about TermScreen for every configuration: windows of any height, *)
(* a scrollback of any capacity, any regions and counts, and any text; in  *)
(* the end, about the text that TermScreen moves around.                   *)
(***************************************************************************)
EXTENDS TermScreen, SequenceTheorems, WellFoundedInduction, TLAPS

(* The terminals with n rows, whatever is on them. *)
Terminals(n) ==
    [rows : {n}, screen : [0 .. n-1 -> Line], alt_screen : [0 .. n-1 -> Line],
     scrollback : Seq(Line), tempsblines : Nat, disptop : Int,
     alt_which : {0, 1}, alt_sblines : 0 .. n,
     cursy : 0 .. n-1, alt_y : 0 .. n-1,
     marg_t : 0 .. n-1, marg_b : 0 .. n-1, alt_t : 0 .. n-1, alt_b : 0 .. n-1,
     selstate : SelStates, selempty : BOOLEAN,
     selstart : Int, selend : Int, selanchor : Int]

(* What every call in the body of a handler keeps true of a terminal. *)
Stored(t, n) ==
    /\ t \in Terminals(n)
    /\ Len(t.scrollback) <= SaveLines
    /\ t.tempsblines <= Len(t.scrollback)
    /\ RegionOK(t, t.marg_t, t.marg_b)
    /\ RegionOK(t, t.alt_t, t.alt_b)

(* What a handler has to keep true, or restore by returning the view to the
   bottom: an exchange of the screens takes lines out of the buffer. *)
Viewed(t) == t.disptop \in -sblines(t) .. 0

(* The inductive invariant. *)
IInv ==
    /\ cfg \in Configs /\ term.rows \in Heights
    /\ Stored(term, term.rows) /\ Viewed(term)
    /\ erased \subseteq Text

-----------------------------------------------------------------------------
(* The settings in force. *)
LEMMA CfgFacts ==
    ASSUME cfg \in Configs
    PROVE  /\ SaveLines \in Nat /\ MaxCount \in Nat
           /\ EraseToScrollback \in BOOLEAN /\ NoAltScreen \in BOOLEAN
           /\ \A h \in Heights : h \in Nat /\ h >= 1
           /\ Blank \in Labels /\ Text \subseteq Labels /\ AltText \subseteq Labels
           /\ Blank \notin Text /\ Blank \notin AltText /\ Text \intersect AltText = {}
           /\ \A x \in Text : x \notin AltText
           /\ Regions \subseteq Nat \X Nat
           /\ ViewRows \subseteq Int /\ MouseRows \subseteq Nat
           /\ BlankLine \in Line
<1>1. /\ cfg.savelines \in Nat /\ cfg.maxcount \in Nat
      /\ {cfg.erase_to_scrollback, cfg.no_alt_screen, cfg.wrapping} \subseteq BOOLEAN
      /\ Blank \notin cfg.text \union cfg.alttext /\ cfg.text \intersect cfg.alttext = {}
      /\ cfg.heights \subseteq Nat \ {0}
      /\ cfg.regions \subseteq Nat \X Nat
      /\ cfg.viewrows \subseteq Int /\ cfg.mouserows \subseteq Nat
  BY ConfigAssumption
<1>2. \A h \in cfg.heights : h \in Nat /\ h >= 1
  BY <1>1
<1>3. Blank \in Labels /\ BlankLine \in Line
  BY DEF Labels, BlankLine, Line
<1> QED BY <1>1, <1>2, <1>3
        DEF SaveLines, MaxCount, EraseToScrollback, NoAltScreen, Heights, Text, AltText,
            Labels, Regions, ViewRows, MouseRows

(* Lesser and Greater, for the arithmetic provers. *)
LEMMA LesserFacts ==
    ASSUME NEW a \in Int, NEW b \in Int
    PROVE  /\ Lesser(a, b) \in Int /\ Lesser(a, b) <= a /\ Lesser(a, b) <= b
           /\ Lesser(a, b) \in {a, b}
           /\ Greater(a, b) \in Int /\ a <= Greater(a, b) /\ b <= Greater(a, b)
           /\ Greater(a, b) \in {a, b}
BY DEF Lesser, Greater

(* A function on 1..n is a sequence of n elements. *)
LEMMA FunctionIsSeq ==
    ASSUME NEW S, NEW n \in Nat, NEW s \in [1 .. n -> S]
    PROVE  s \in Seq(S) /\ Len(s) = n
OBVIOUS

(* The newest lines of a scrollback. *)
LEMMA NewestFacts ==
    ASSUME NEW S, NEW s \in Seq(S), NEW n \in Nat
    PROVE  /\ Newest(s, n) \in Seq(S)
           /\ Len(Newest(s, n)) = Lesser(Len(s), n)
           /\ \A i \in 1 .. Len(Newest(s, n)) :
                 Newest(s, n)[i] = s[i + Len(s) - Len(Newest(s, n))]
<1>0. Len(s) \in Nat
  BY LenProperties
<1>1. CASE Len(s) <= n
  BY <1>0, <1>1 DEF Newest, Lesser
<1>2. CASE ~(Len(s) <= n)
  <2> DEFINE m == Len(s) - n + 1
  <2>1. m \in 2 .. Len(s) + 1 /\ Newest(s, n) = SubSeq(s, m, Len(s))
    BY <1>0, <1>2 DEF Newest
  <2>2. \A i \in m .. Len(s) : s[i] \in S
    BY <1>0, <2>1, ElementOfSeq
  <2>3. /\ SubSeq(s, m, Len(s)) \in Seq(S)
        /\ Len(SubSeq(s, m, Len(s))) = IF m <= Len(s) THEN Len(s) - m + 1 ELSE 0
        /\ \A i \in 1 .. Len(s) - m + 1 : SubSeq(s, m, Len(s))[i] = s[m + i - 1]
    BY <1>0, <2>1, <2>2, SubSeqProperties
  <2>4. Len(s) - m + 1 = n /\ Lesser(Len(s), n) = n
    BY <1>0, <1>2 DEF Lesser
  <2>5. Len(Newest(s, n)) = n
    BY <1>0, <2>1, <2>3, <2>4
  <2>6. ASSUME NEW i \in 1 .. n PROVE m + i - 1 = i + Len(s) - n
    BY <1>0
  <2> QED BY <2>1, <2>3, <2>4, <2>5, <2>6
<1> QED BY <1>1, <1>2

(* Every nonempty set of natural numbers has a least member. *)
LEMMA LeastOf ==
    ASSUME NEW T, T \subseteq Nat, T # {}
    PROVE  \E m \in T : \A k \in T : m <= k
<1> DEFINE R == OpToRel(<, Nat)
<1>1. IsWellFoundedOn(R, Nat)
  BY NatLessThanWellFounded
<1>2. \A a, b \in Nat : a < b => <<a, b>> \in R
  BY DEF OpToRel
<1> HIDE DEF R
<1>3. PICK m \in T : \A k \in T : ~ (<<k, m>> \in R)
  BY <1>1, WFMin
<1>4. ASSUME NEW k \in T PROVE m <= k
  <2>1. m \in Nat /\ k \in Nat /\ ~(k < m)
    BY <1>2, <1>3
  <2> QED BY <2>1
<1> QED BY <1>4

(* Every nonempty set of rows has a lowest one. *)
LEMMA GreatestOf ==
    ASSUME NEW n \in Nat, NEW T, T \subseteq 0 .. n-1, T # {}
    PROVE  \E m \in T : \A k \in T : k <= m
<1> DEFINE U == {d \in Nat : \E k \in T : d = n - k}
<1>1. \A k \in T : k \in Int /\ n - k \in U
  OBVIOUS
<1>2. U \subseteq Nat /\ U # {}
  BY <1>1
<1>3. \A d \in U : d \in Nat /\ \E k \in T : d = n - k
  OBVIOUS
<1> HIDE DEF U
<1>4. PICK u \in U : \A v \in U : u <= v
  BY <1>2, LeastOf
<1>5. PICK m \in T : u = n - m
  BY <1>3
<1>6. ASSUME NEW k \in T PROVE k <= m
  <2>1. n - m <= n - k
    BY <1>1, <1>4, <1>5
  <2> QED BY <1>1, <2>1
<1> QED BY <1>6

(* find_last_nonempty_line() returns a row of the screen below which nothing is
   left, or -1 when nothing is left on the screen at all. *)
LEMMA LastLineFacts ==
    ASSUME NEW n \in Nat, NEW s \in [0 .. n-1 -> Line]
    PROVE  /\ find_last_nonempty_line(s) \in -1 .. n-1
           /\ \A j \in 0 .. n-1 : j > find_last_nonempty_line(s) => s[j].text = Blank
<1> DEFINE T == {i \in 0 .. n-1 : s[i].text # Blank}
<1>1. CASE T = {}
  <2>1. ~ \E i \in DOMAIN s : IsLastNonempty(s, i)
    BY <1>1 DEF IsLastNonempty
  <2> QED BY <1>1, <2>1 DEF find_last_nonempty_line
<1>2. CASE T # {}
  <2>1. PICK m \in T : \A k \in T : k <= m
    BY <1>2, GreatestOf
  <2>2. m \in DOMAIN s /\ IsLastNonempty(s, m)
    BY <2>1 DEF IsLastNonempty
  <2> DEFINE last == CHOOSE i \in DOMAIN s : IsLastNonempty(s, i)
  <2>3. last \in DOMAIN s /\ IsLastNonempty(s, last)
    BY <2>2
  <2>4. find_last_nonempty_line(s) = last
    BY <2>2 DEF find_last_nonempty_line
  <2> HIDE DEF last
  <2> QED BY <2>3, <2>4 DEF IsLastNonempty
<1> QED BY <1>1, <1>2

-----------------------------------------------------------------------------
(* Each operator takes a terminal to a terminal. *)

(* What the selection has no part in. *)
SameLines(u, t) ==
    /\ u.rows = t.rows /\ u.screen = t.screen /\ u.alt_screen = t.alt_screen
    /\ u.scrollback = t.scrollback /\ u.tempsblines = t.tempsblines
    /\ u.disptop = t.disptop
    /\ u.alt_which = t.alt_which /\ u.alt_sblines = t.alt_sblines
    /\ u.cursy = t.cursy /\ u.alt_y = t.alt_y
    /\ u.marg_t = t.marg_t /\ u.marg_b = t.marg_b
    /\ u.alt_t = t.alt_t /\ u.alt_b = t.alt_b

(* The selection's fields are set. *)
LEMMA SelectionStored ==
    ASSUME NEW n \in Nat, NEW t, Stored(t, n),
           NEW st \in SelStates, NEW lo \in Int, NEW hi \in Int, NEW a \in Int,
           NEW e \in BOOLEAN
    PROVE  /\ Stored([t EXCEPT !.selstate = st, !.selstart = lo, !.selend = hi,
                                !.selanchor = a, !.selempty = e], n)
           /\ SameLines([t EXCEPT !.selstate = st, !.selstart = lo, !.selend = hi,
                                  !.selanchor = a, !.selempty = e], t)
BY DEF Stored, Terminals, RegionOK, Rows, SameLines

(* deselect() changes nothing but the selection. *)
LEMMA DeselectFacts ==
    ASSUME NEW n \in Nat, NEW t, Stored(t, n)
    PROVE  Stored(deselect(t), n) /\ SameLines(deselect(t), t)
<1>1. "NO_SELECTION" \in SelStates /\ 0 \in Int /\ TRUE \in BOOLEAN
  BY DEF SelStates
<1> QED BY <1>1, SelectionStored DEF deselect

(* Nor does check_selection(). *)
LEMMA CheckSelectionFacts ==
    ASSUME NEW n \in Nat, NEW t, Stored(t, n), NEW top, NEW bot, NEW shared
    PROVE  /\ Stored(check_selection(t, top, bot, shared), n)
           /\ SameLines(check_selection(t, top, bot, shared), t)
<1>1. SameLines(t, t)
  BY DEF SameLines
<1> QED BY <1>1, DeselectFacts DEF check_selection

(* The cursor is moved to a row of the screen. *)
LEMMA CursorStored ==
    ASSUME NEW n \in Nat, NEW t, Stored(t, n), NEW y \in 0 .. n-1
    PROVE  Stored([t EXCEPT !.cursy = y], n)
BY DEF Stored, Terminals, RegionOK, Rows

(* The view is moved. *)
LEMMA ViewStored ==
    ASSUME NEW n \in Nat, NEW t, Stored(t, n), NEW d \in Int
    PROVE  Stored([t EXCEPT !.disptop = d], n)
BY DEF Stored, Terminals, RegionOK, Rows

(* The bottom of the buffer is always there to be viewed. *)
LEMMA BottomViewed ==
    ASSUME NEW n \in Nat, NEW t, Stored(t, n), t.disptop = 0
    PROVE  Viewed(t)
<1>1. Len(t.scrollback) \in Nat /\ t.alt_sblines \in Nat
  BY LenProperties DEF Stored, Terminals
<1> QED BY <1>1 DEF Viewed, sblines, altlines

(* A terminal that differs only in its selection is viewed alike. *)
LEMMA SameViewed ==
    ASSUME NEW t, NEW u, Viewed(t), SameLines(u, t)
    PROVE  Viewed(u)
BY DEF Viewed, SameLines, sblines, altlines

(* The rows of a region scroll, by any count and in either direction. *)
LEMMA ScrolledRowsType ==
    ASSUME cfg \in Configs, NEW n \in Nat, NEW t, Stored(t, n),
           NEW top \in Nat, NEW bot \in 0 .. n-1, NEW k \in Int
    PROVE  ScrolledRows(t, top, bot, k) \in [0 .. n-1 -> Line]
<1>1. t.rows = n /\ t.screen \in [0 .. n-1 -> Line]
  BY DEF Stored, Terminals
<1>2. ASSUME NEW i \in 0 .. n-1
      PROVE  (IF i < top \/ i > bot THEN t.screen[i]
              ELSE IF top <= i + k /\ i + k <= bot THEN t.screen[i + k]
              ELSE BlankLine) \in Line
  <2>1. PICK j \in Int : j = i + k
    OBVIOUS
  <2>2. top <= j /\ j <= bot => j \in 0 .. n-1 /\ t.screen[j] \in Line
    BY <1>1
  <2>3. BlankLine \in Line /\ t.screen[i] \in Line
    BY <1>1, CfgFacts
  <2> QED BY <2>1, <2>2, <2>3
<1> QED BY <1>1, <1>2 DEF ScrolledRows

(* The lines that leave it at the top. *)
LEMMA LeavingLinesType ==
    ASSUME cfg \in Configs, NEW n \in Nat, NEW t, Stored(t, n),
           NEW top \in Nat, NEW bot \in 0 .. n-1, NEW k \in Nat
    PROVE  /\ LeavingLines(t, top, bot, k) \in Seq(Line)
           /\ Len(LeavingLines(t, top, bot, k)) = k
           /\ \A j \in 1 .. k : LeavingLines(t, top, bot, k)[j] =
                 IF top + j - 1 <= bot THEN t.screen[top + j - 1] ELSE BlankLine
<1>1. t.screen \in [0 .. n-1 -> Line]
  BY DEF Stored, Terminals
<1> DEFINE s == LeavingLines(t, top, bot, k)
<1>2. s = [j \in 1 .. k |-> IF top + j - 1 <= bot THEN t.screen[top + j - 1] ELSE BlankLine]
  BY DEF LeavingLines
<1>3. ASSUME NEW j \in 1 .. k
      PROVE  (IF top + j - 1 <= bot THEN t.screen[top + j - 1] ELSE BlankLine) \in Line
  <2>1. PICK i \in Nat : i = top + j - 1
    OBVIOUS
  <2>2. i <= bot => i \in 0 .. n-1 /\ t.screen[i] \in Line
    BY <1>1, <2>1
  <2>3. BlankLine \in Line
    BY CfgFacts
  <2> QED BY <2>1, <2>2, <2>3
<1>4. s \in [1 .. k -> Line]
  BY <1>2, <1>3
<1> HIDE DEF s
<1>5. s \in Seq(Line) /\ Len(s) = k
  BY <1>4, FunctionIsSeq
<1> QED BY <1>2, <1>5 DEF s

(* What scroll() has no part in. *)
SameScreens(u, t) ==
    /\ u.rows = t.rows /\ u.alt_screen = t.alt_screen
    /\ u.alt_which = t.alt_which /\ u.alt_sblines = t.alt_sblines
    /\ u.cursy = t.cursy /\ u.alt_y = t.alt_y
    /\ u.marg_t = t.marg_t /\ u.marg_b = t.marg_b
    /\ u.alt_t = t.alt_t /\ u.alt_b = t.alt_b
    /\ u.selstate = t.selstate /\ u.selempty = t.selempty
    /\ u.selanchor = t.selanchor

(* The fields that scroll() sets. *)
Rolled(t, scr, sb, k, d, lo, hi) ==
    [t EXCEPT !.screen = scr, !.scrollback = sb, !.tempsblines = k,
              !.disptop = d, !.selstart = lo, !.selend = hi]

(* Setting them leaves the rest alone. *)
LEMMA RolledStored ==
    ASSUME NEW n \in Nat, NEW t, Stored(t, n),
           NEW scr \in [0 .. n-1 -> Line], NEW sb \in Seq(Line), NEW k \in Nat,
           Len(sb) <= SaveLines, k <= Len(sb),
           NEW d \in Int, NEW lo \in Int, NEW hi \in Int
    PROVE  LET u == Rolled(t, scr, sb, k, d, lo, hi)
           IN  /\ Stored(u, n) /\ SameScreens(u, t)
               /\ u.screen = scr /\ u.scrollback = sb /\ u.tempsblines = k
               /\ u.disptop = d /\ u.selstart = lo /\ u.selend = hi
<1> DEFINE u == Rolled(t, scr, sb, k, d, lo, hi)
<1>1. /\ u \in Terminals(n) /\ SameScreens(u, t)
      /\ u.screen = scr /\ u.scrollback = sb /\ u.tempsblines = k
      /\ u.disptop = d /\ u.selstart = lo /\ u.selend = hi
  BY DEF Rolled, Stored, Terminals, SameScreens
<1> HIDE DEF u
<1>2. Stored(u, n)
  BY <1>1 DEF Stored, SameScreens, RegionOK, Rows
<1> QED BY <1>1, <1>2 DEF u

(* What ScrollUp() makes of the scrollback, the lines that may be taken back
   from it and the view. *)
SavedLines(t, top, bot, n, sb) ==
    IF sb /\ SaveLines > 0 THEN Newest(t.scrollback \o LeavingLines(t, top, bot, n), SaveLines)
    ELSE t.scrollback
SavedCount(t, n, sb) == IF sb /\ SaveLines > 0 THEN TempLinesAfter(t, n) ELSE t.tempsblines
SavedView(t, n, sb) == IF sb /\ SaveLines > 0 THEN ViewAfter(t, n) ELSE t.disptop

(* The lines scrolled away are kept, the oldest of all give way to them, and the
   number of lines that may be taken back never exceeds the number kept. *)
LEMMA SavedFacts ==
    ASSUME cfg \in Configs, NEW n \in Nat, NEW t, Stored(t, n),
           NEW top \in Nat, NEW bot \in 0 .. n-1, NEW k \in Nat, NEW sb
    PROVE  LET s == SavedLines(t, top, bot, k, sb)
           IN  /\ s \in Seq(Line) /\ Len(s) <= SaveLines
               /\ Len(s) = IF sb THEN Lesser(Len(t.scrollback) + k, SaveLines)
                                 ELSE Len(t.scrollback)
               /\ SavedCount(t, k, sb) \in Nat /\ SavedCount(t, k, sb) <= Len(s)
               /\ SavedView(t, k, sb) \in Int
<1>1. /\ t.scrollback \in Seq(Line) /\ Len(t.scrollback) \in Nat
      /\ Len(t.scrollback) <= SaveLines
      /\ t.tempsblines \in Nat /\ t.tempsblines <= Len(t.scrollback)
      /\ t.disptop \in Int /\ SaveLines \in Nat
  BY CfgFacts, LenProperties DEF Stored, Terminals
<1> DEFINE l == LeavingLines(t, top, bot, k)
           c == t.scrollback \o l
           s == SavedLines(t, top, bot, k, sb)
<1>2. l \in Seq(Line) /\ Len(l) = k
  BY LeavingLinesType
<1>3. c \in Seq(Line) /\ Len(c) = Len(t.scrollback) + k
  BY <1>1, <1>2, ConcatProperties
<1>4. Newest(c, SaveLines) \in Seq(Line) /\ Len(Newest(c, SaveLines)) = Lesser(Len(c), SaveLines)
  BY <1>1, <1>3, NewestFacts
<1>5. CASE sb /\ SaveLines > 0
  <2>1. s = Newest(c, SaveLines)
    BY <1>5 DEF SavedLines
  <2> HIDE DEF l, c, s
  <2>2. /\ SavedCount(t, k, sb) = t.tempsblines + Lesser(k, SaveLines - Len(t.scrollback))
        /\ SavedView(t, k, sb) = ViewAfter(t, k)
    BY <1>5 DEF SavedCount, SavedView, TempLinesAfter
  <2>3. ViewAfter(t, k) \in Int
    BY <1>1 DEF ViewAfter, Greater
  <2>4. Len(s) = Lesser(Len(t.scrollback) + k, SaveLines) /\ s \in Seq(Line)
    BY <1>3, <1>4, <2>1
  <2>5. /\ Len(s) <= SaveLines
        /\ SavedCount(t, k, sb) \in Nat /\ SavedCount(t, k, sb) <= Len(s)
    BY <1>1, <2>2, <2>4 DEF Lesser
  <2> QED BY <1>5, <2>2, <2>3, <2>4, <2>5 DEF s
<1>6. CASE ~(sb /\ SaveLines > 0)
  <2>1. /\ s = t.scrollback /\ SavedCount(t, k, sb) = t.tempsblines
        /\ SavedView(t, k, sb) = t.disptop
    BY <1>6 DEF SavedLines, SavedCount, SavedView
  <2>2. sb => Lesser(Len(t.scrollback) + k, SaveLines) = Len(t.scrollback)
    BY <1>1, <1>6 DEF Lesser
  <2> QED BY <1>1, <2>1, <2>2
<1> QED BY <1>5, <1>6

(* Where a selection's end goes when lines move up ... *)
FollowUp(t, y, top, bot, n, sb) ==
    IF t.selstate # "NO_SELECTION"
    THEN SelUp(y, IF sb THEN -SaveLines ELSE top, bot, n) ELSE y
(* ... and down. *)
FollowDown(t, y, top, bot, n) ==
    IF t.selstate # "NO_SELECTION" THEN SelDown(y, top, bot, n) ELSE y

(* Lines scroll up. *)
LEMMA ScrollUpFacts ==
    ASSUME cfg \in Configs, NEW n \in Nat, NEW t, Stored(t, n),
           NEW top \in Nat, NEW bot \in 0 .. n-1, NEW k \in Nat, NEW sb
    PROVE  LET u == ScrollUp(t, top, bot, k, sb)
           IN  /\ Stored(u, n) /\ SameScreens(u, t)
               /\ u.screen = ScrolledRows(t, top, bot, k)
               /\ u.scrollback = SavedLines(t, top, bot, k, sb)
               /\ u.tempsblines = SavedCount(t, k, sb)
               /\ u.disptop = SavedView(t, k, sb)
               /\ u.selstart = FollowUp(t, t.selstart, top, bot, k, sb)
               /\ u.selend = FollowUp(t, t.selend, top, bot, k, sb)
<1> DEFINE scr == ScrolledRows(t, top, bot, k)
           s == SavedLines(t, top, bot, k, sb)
           c == SavedCount(t, k, sb)
           d == SavedView(t, k, sb)
           lo == FollowUp(t, t.selstart, top, bot, k, sb)
           hi == FollowUp(t, t.selend, top, bot, k, sb)
<1>1. /\ s \in Seq(Line) /\ Len(s) <= SaveLines
      /\ c \in Nat /\ c <= Len(s) /\ d \in Int
  BY SavedFacts
<1>2. scr \in [0 .. n-1 -> Line]
  BY ScrolledRowsType
<1>3. lo \in Int /\ hi \in Int
  <2>1. t.selstart \in Int /\ t.selend \in Int /\ SaveLines \in Nat
    BY CfgFacts DEF Stored, Terminals
  <2> QED BY <2>1 DEF FollowUp, SelUp, Greater
<1>4. ScrollUp(t, top, bot, k, sb) = Rolled(t, scr, s, c, d, lo, hi)
  BY DEF Rolled, ScrollUp, SavedLines, SavedCount, SavedView, FollowUp
<1> HIDE DEF scr, s, c, d, lo, hi
<1> DEFINE u == ScrollUp(t, top, bot, k, sb)
<1>5. /\ Stored(u, n) /\ SameScreens(u, t)
      /\ u.screen = scr /\ u.scrollback = s /\ u.tempsblines = c
      /\ u.disptop = d /\ u.selstart = lo /\ u.selend = hi
  BY <1>1, <1>2, <1>3, <1>4, RolledStored
<1> QED BY <1>5 DEF scr, s, c, d, lo, hi

(* Lines scroll down: nothing enters the scrollback or leaves it. *)
LEMMA ScrollDownFacts ==
    ASSUME cfg \in Configs, NEW n \in Nat, NEW t, Stored(t, n),
           NEW top \in Nat, NEW bot \in 0 .. n-1, NEW k \in Nat
    PROVE  LET u == ScrollDown(t, top, bot, k)
           IN  /\ Stored(u, n) /\ SameScreens(u, t)
               /\ u.screen = ScrolledRows(t, top, bot, -k)
               /\ u.scrollback = t.scrollback /\ u.tempsblines = t.tempsblines
               /\ u.disptop = t.disptop
               /\ u.selstart = FollowDown(t, t.selstart, top, bot, k)
               /\ u.selend = FollowDown(t, t.selend, top, bot, k)
<1> DEFINE scr == ScrolledRows(t, top, bot, -k)
           lo == FollowDown(t, t.selstart, top, bot, k)
           hi == FollowDown(t, t.selend, top, bot, k)
           u == [t EXCEPT !.screen = scr, !.selstart = lo, !.selend = hi]
<1>1. scr \in [0 .. n-1 -> Line]
  BY ScrolledRowsType
<1>2. lo \in Int /\ hi \in Int
  <2>1. t.selstart \in Int /\ t.selend \in Int
    BY DEF Stored, Terminals
  <2> QED BY <2>1 DEF FollowDown, SelDown, Lesser
<1>3. ScrollDown(t, top, bot, k) = u
  BY DEF ScrollDown, FollowDown
<1> HIDE DEF scr, lo, hi
<1>4. /\ u \in Terminals(n) /\ SameScreens(u, t)
      /\ u.screen = scr /\ u.scrollback = t.scrollback /\ u.tempsblines = t.tempsblines
      /\ u.disptop = t.disptop /\ u.selstart = lo /\ u.selend = hi
  BY <1>1, <1>2 DEF Stored, Terminals, SameScreens
<1> HIDE DEF u
<1>5. Stored(u, n)
  BY <1>4 DEF Stored, SameScreens, RegionOK, Rows
<1> QED BY <1>3, <1>4, <1>5 DEF scr, lo, hi

(* A view of a scrollback of l lines, of which at most s are kept, when k more
   enter it. *)
LEMMA ViewArithmetic ==
    ASSUME NEW l \in Nat, NEW s \in Nat, l <= s, NEW k \in Nat,
           NEW d \in Int, -l <= d, d <= 0
    PROVE  LET v == IF -s < d /\ d < 0 THEN Greater(d - k, -s) ELSE d
           IN  v \in Int /\ v <= 0 /\ -Lesser(l + k, s) <= v
BY DEF Greater, Lesser

(* scroll(), in either direction, keeps everything that is stored in order, and
   a view of the scrollback stays inside it. *)
LEMMA ScrollFacts ==
    ASSUME cfg \in Configs, NEW n \in Nat, NEW t, Stored(t, n),
           NEW top \in Nat, NEW bot \in 0 .. n-1, NEW k \in Int, NEW sb
    PROVE  LET u == scroll(t, top, bot, k, sb)
           IN  /\ Stored(u, n) /\ SameScreens(u, t)
               /\ u.screen = ScrolledRows(t, top, bot, k)
               /\ t.alt_which = 1 \/ ~sb => /\ u.scrollback = t.scrollback
                                           /\ u.tempsblines = t.tempsblines
               /\ Viewed(t) => Viewed(u)
<1> DEFINE u == scroll(t, top, bot, k, sb)
<1>0. /\ t.alt_which \in {0, 1} /\ t.alt_sblines \in Nat
      /\ Len(t.scrollback) \in Nat /\ Len(t.scrollback) <= SaveLines
      /\ t.disptop \in Int /\ SaveLines \in Nat
  BY CfgFacts, LenProperties DEF Stored, Terminals
<1>1. CASE k < 0
  <2>1. PICK j \in Nat : j = -k
    BY <1>1
  <2>2. u = ScrollDown(t, top, bot, j)
    BY <1>1, <2>1 DEF scroll
  <2> HIDE DEF u
  <2> DEFINE v == ScrollDown(t, top, bot, j)
  <2>3. /\ Stored(v, n) /\ SameScreens(v, t)
        /\ v.screen = ScrolledRows(t, top, bot, -j)
        /\ v.scrollback = t.scrollback /\ v.tempsblines = t.tempsblines
        /\ v.disptop = t.disptop
    BY ScrollDownFacts
  <2>4. Viewed(t) => Viewed(u)
    BY <2>2, <2>3 DEF Viewed, sblines, altlines, SameScreens
  <2> QED BY <2>1, <2>2, <2>3, <2>4 DEF u
<1>2. CASE ~(k < 0)
  <2>0. PICK b \in BOOLEAN : b <=> (sb /\ top = 0 /\ t.alt_which = 0)
    OBVIOUS
  <2>1. k \in Nat /\ u = ScrollUp(t, top, bot, k, b)
    BY <1>2, <2>0 DEF scroll
  <2> HIDE DEF u
  <2>2. /\ Stored(u, n) /\ SameScreens(u, t)
        /\ u.screen = ScrolledRows(t, top, bot, k)
        /\ u.scrollback = SavedLines(t, top, bot, k, b)
        /\ u.tempsblines = SavedCount(t, k, b)
        /\ u.disptop = SavedView(t, k, b)
    BY <2>1, ScrollUpFacts
  <2>3. t.alt_which = 1 \/ ~sb => /\ u.scrollback = t.scrollback
                                  /\ u.tempsblines = t.tempsblines
    BY <1>0, <2>0, <2>2 DEF SavedLines, SavedCount
  <2>4. Len(u.scrollback) = IF b THEN Lesser(Len(t.scrollback) + k, SaveLines)
                           ELSE Len(t.scrollback)
    BY <2>1, <2>2, SavedFacts
  <2>5. altlines(u) = altlines(t) /\ altlines(t) \in Nat /\ (b => altlines(t) = 0)
    BY <1>0, <2>0, <2>2 DEF altlines, SameScreens
  <2>6. ASSUME -(Len(t.scrollback) + altlines(t)) <= t.disptop, t.disptop <= 0
        PROVE  /\ u.disptop \in Int /\ u.disptop <= 0
               /\ -(Len(u.scrollback) + altlines(u)) <= u.disptop
    <3>1. CASE b /\ SaveLines > 0
      <4>1. u.disptop = ViewAfter(t, k) /\ Len(u.scrollback) = Lesser(Len(t.scrollback) + k, SaveLines)
        BY <2>2, <2>4, <3>1 DEF SavedView
      <4>2. altlines(u) = 0 /\ altlines(t) = 0
        BY <2>5, <3>1
      <4>3. -Len(t.scrollback) <= t.disptop
        BY <1>0, <2>6, <4>2
      <4>4. /\ ViewAfter(t, k) \in Int /\ ViewAfter(t, k) <= 0
            /\ -Lesser(Len(t.scrollback) + k, SaveLines) <= ViewAfter(t, k)
        BY <1>0, <2>1, <2>6, <4>3, ViewArithmetic DEF ViewAfter
      <4> QED BY <1>0, <2>1, <4>1, <4>2, <4>4 DEF Lesser
    <3>2. CASE ~(b /\ SaveLines > 0)
      <4>1. u.disptop = t.disptop /\ Len(u.scrollback) = Len(t.scrollback)
        BY <1>0, <2>1, <2>2, <2>4, <3>2 DEF SavedView, Lesser
      <4> QED BY <1>0, <2>5, <2>6, <4>1
    <3> QED BY <3>1, <3>2
  <2>7. Viewed(t) => Viewed(u)
    <3>1. Len(u.scrollback) \in Nat /\ altlines(u) \in Nat
      BY <2>2, <2>5, LenProperties DEF Stored, Terminals
    <3> QED BY <1>0, <2>5, <2>6, <3>1 DEF Viewed, sblines
  <2> QED BY <2>2, <2>3, <2>7 DEF u
<1> QED BY <1>1, <1>2

(* The calls that let the scrollback keep what leaves at the top. *)
LEMMA SavingScrollFacts ==
    ASSUME cfg \in Configs, NEW n \in Nat, NEW t, Stored(t, n),
           NEW top \in Nat, NEW bot \in 0 .. n-1, NEW k \in Int
    PROVE  LET u == scroll(t, top, bot, k, TRUE)
           IN  /\ Stored(u, n) /\ SameScreens(u, t)
               /\ u.screen = ScrolledRows(t, top, bot, k)
               /\ t.alt_which = 1 => /\ u.scrollback = t.scrollback
                                     /\ u.tempsblines = t.tempsblines
               /\ Viewed(t) => Viewed(u)
<1>1. PICK sb \in BOOLEAN : sb = TRUE
  OBVIOUS
<1> DEFINE v == scroll(t, top, bot, k, sb)
<1>2. /\ Stored(v, n) /\ SameScreens(v, t)
      /\ v.screen = ScrolledRows(t, top, bot, k)
      /\ t.alt_which = 1 \/ ~sb => /\ v.scrollback = t.scrollback
                                  /\ v.tempsblines = t.tempsblines
      /\ Viewed(t) => Viewed(v)
  BY ScrollFacts
<1>3. v = scroll(t, top, bot, k, TRUE)
  BY <1>1, Zenon
<1> HIDE DEF v
<1> QED BY <1>2, <1>3

-----------------------------------------------------------------------------
(* Erasing and swapping. *)

(* What no erase has a part in. *)
SameFrame(u, t) ==
    /\ u.rows = t.rows /\ u.alt_screen = t.alt_screen
    /\ u.alt_which = t.alt_which /\ u.alt_sblines = t.alt_sblines
    /\ u.cursy = t.cursy /\ u.alt_y = t.alt_y
    /\ u.marg_t = t.marg_t /\ u.marg_b = t.marg_b
    /\ u.alt_t = t.alt_t /\ u.alt_b = t.alt_b

(* Nothing is left on the screen. *)
BlankRows(t) == \A i \in 0 .. t.rows - 1 : t.screen[i].text = Blank

(* A screen put in place of the one that shows. *)
WithScreen(t, s) == [t EXCEPT !.screen = s]
LEMMA WithScreenFacts ==
    ASSUME NEW n \in Nat, NEW t, Stored(t, n), NEW s \in [0 .. n-1 -> Line]
    PROVE  LET u == WithScreen(t, s)
           IN  /\ Stored(u, n) /\ SameFrame(u, t) /\ u.screen = s
               /\ u.scrollback = t.scrollback /\ u.tempsblines = t.tempsblines
               /\ u.disptop = t.disptop
               /\ u.selstate = t.selstate /\ u.selempty = t.selempty
               /\ u.selstart = t.selstart /\ u.selend = t.selend
               /\ u.selanchor = t.selanchor
<1> DEFINE u == WithScreen(t, s)
<1>1. /\ u \in Terminals(n) /\ SameFrame(u, t) /\ u.screen = s
      /\ u.scrollback = t.scrollback /\ u.tempsblines = t.tempsblines
      /\ u.disptop = t.disptop
      /\ u.selstate = t.selstate /\ u.selempty = t.selempty
      /\ u.selstart = t.selstart /\ u.selend = t.selend
      /\ u.selanchor = t.selanchor
  BY DEF WithScreen, Stored, Terminals, SameFrame
<1> HIDE DEF u
<1>2. Stored(u, n)
  BY <1>1 DEF Stored, SameFrame, RegionOK, Rows
<1> QED BY <1>1, <1>2 DEF u

(* Rows are erased; each keeps its text or becomes blank. *)
LEMMA ErasedRowsFacts ==
    ASSUME cfg \in Configs, NEW n \in Nat, NEW t, Stored(t, n),
           NEW top \in Int, NEW bot \in Int, NEW part \in Int,
           NEW to_end, NEW kept
    PROVE  LET s == ErasedRows(t, top, bot, part, to_end, kept)
           IN  /\ s \in [0 .. n-1 -> Line]
               /\ \A i \in 0 .. n-1 : s[i].text \in {t.screen[i].text, Blank}
               /\ top <= 0 /\ bot >= n-1 /\ part = -1 =>
                     \A i \in 0 .. n-1 : s[i].text = Blank
<1> DEFINE row(i) == IF i < top \/ i > bot THEN t.screen[i]
                     ELSE IF i = part
                          THEN [t.screen[i] EXCEPT !.text = IF kept THEN @ ELSE Blank,
                                                   !.wrapped = @ /\ ~to_end]
                          ELSE BlankLine
<1>1. t.rows = n /\ t.screen \in [0 .. n-1 -> Line]
  BY DEF Stored, Terminals
<1>2. ASSUME NEW i \in 0 .. n-1
      PROVE  row(i) \in Line /\ row(i).text \in {t.screen[i].text, Blank}
  <2>1. t.screen[i] \in Line /\ BlankLine \in Line /\ BlankLine.text = Blank
    BY <1>1, CfgFacts DEF BlankLine
  <2> DEFINE l == t.screen[i]
             x == IF kept THEN l.text ELSE Blank
             w == l.wrapped /\ ~to_end
             part_row == [l EXCEPT !.text = x, !.wrapped = w]
  <2>2. x \in Labels /\ w \in BOOLEAN /\ x \in {l.text, Blank}
    BY <2>1, CfgFacts DEF Line
  <2> HIDE DEF l, x, w
  <2>3. part_row \in Line /\ part_row.text = x
    BY <2>1, <2>2 DEF Line, l
  <2>4. row(i) \in {l, part_row, BlankLine}
    BY DEF l, x, w
  <2> HIDE DEF part_row, row
  <2> QED BY <2>1, <2>2, <2>3, <2>4 DEF l
<1>3. ErasedRows(t, top, bot, part, to_end, kept) = [i \in 0 .. n-1 |-> row(i)]
  BY <1>1 DEF ErasedRows
<1>4. ASSUME top <= 0, bot >= n-1, part = -1, NEW i \in 0 .. n-1 PROVE row(i).text = Blank
  BY <1>4 DEF BlankLine
<1> HIDE DEF row
<1> QED BY <1>2, <1>3, <1>4

(* An erase of the whole primary screen leaves nothing to take back. *)
LEMMA ForgottenFacts ==
    ASSUME NEW n \in Nat, NEW t, Stored(t, n)
    PROVE  LET u == Forgotten(t)
           IN  /\ Stored(u, n) /\ SameFrame(u, t) /\ u.screen = t.screen
               /\ u.scrollback = t.scrollback /\ u.disptop = t.disptop
               /\ u.tempsblines = IF t.alt_which = 0 THEN 0 ELSE t.tempsblines
<1> DEFINE u == Forgotten(t)
<1>1. /\ u \in Terminals(n) /\ SameFrame(u, t) /\ u.screen = t.screen
      /\ u.scrollback = t.scrollback /\ u.disptop = t.disptop
      /\ u.tempsblines = IF t.alt_which = 0 THEN 0 ELSE t.tempsblines
  BY DEF Forgotten, Stored, Terminals, SameFrame
<1>2. Len(t.scrollback) \in Nat
  BY LenProperties DEF Stored, Terminals
<1> HIDE DEF u
<1>3. Stored(u, n)
  BY <1>1, <1>2 DEF Stored, SameFrame, RegionOK, Rows
<1> QED BY <1>1, <1>3 DEF u

(* A view stays inside a buffer that keeps its lines. *)
LEMMA FrameViewed ==
    ASSUME NEW t, NEW u, Viewed(t), SameFrame(u, t), u.scrollback = t.scrollback,
           u.disptop = t.disptop
    PROVE  Viewed(u)
BY DEF Viewed, SameFrame, sblines, altlines

(* erase_lots() of anything but a line: an erase of the whole screen may feed
   the scrollback, and leaves the screen blank; any other only blanks rows. *)
Whole(t, from_begin, to_end, home) == to_end /\ (from_begin \/ (t.cursy = 0 /\ home))
LEMMA EraseScreenFacts ==
    ASSUME cfg \in Configs, NEW n \in Nat, NEW t, Stored(t, n),
           NEW from_begin, NEW to_end, NEW home,
           NEW kept, NEW shared
    PROVE  LET u == EraseScreen(t, from_begin, to_end, home, kept, shared)
               whole == Whole(t, from_begin, to_end, home)
           IN  /\ Stored(u, n) /\ SameFrame(u, t)
               /\ t.alt_which = 1 \/ ~whole => /\ u.scrollback = t.scrollback
                                              /\ u.tempsblines = t.tempsblines
               /\ whole => BlankRows(u) /\ (t.alt_which = 0 => u.tempsblines = 0)
               /\ ~whole => \A i \in 0 .. n-1 :
                                u.screen[i].text \in {t.screen[i].text, Blank}
               /\ Viewed(t) => Viewed(u)
<1> DEFINE whole == to_end /\ (from_begin \/ (t.cursy = 0 /\ home))
           top   == IF from_begin THEN 0 ELSE t.cursy
           bot   == IF to_end THEN t.rows - 1 ELSE t.cursy
           part  == IF whole \/ (to_end /\ home) THEN -1 ELSE t.cursy
           u     == check_selection(t, top, bot, shared)
           last  == find_last_nonempty_line(u.screen)
           cut   == ErasedRows(u, top, bot, part, to_end, kept)
           done  == IF whole /\ EraseToScrollback
                    THEN IF last >= 0 THEN scroll(u, 0, last, last + 1, TRUE) ELSE u
                    ELSE [u EXCEPT !.screen = cut]
           res   == IF whole THEN Forgotten(done) ELSE done
<1>1. EraseScreen(t, from_begin, to_end, home, kept, shared) = res
  BY DEF EraseScreen
<1>2. /\ t.rows = n /\ t.cursy \in 0 .. n-1 /\ t.alt_which \in {0, 1}
      /\ top \in Int /\ bot \in Int /\ part \in Int
      /\ whole => top <= 0 /\ bot >= n-1 /\ part = -1
  <2>1. t.rows = n /\ t.cursy \in 0 .. n-1 /\ t.alt_which \in {0, 1}
    BY DEF Stored, Terminals
  <2>2. top \in Int /\ bot \in Int
    BY <2>1
  <2>3. part \in Int
    BY <2>1
  <2>4. whole => top <= 0 /\ bot >= n-1 /\ part = -1
    BY <2>1
  <2> QED BY <2>1, <2>2, <2>3, <2>4
<1>3. Whole(t, from_begin, to_end, home) <=> whole
  BY DEF Whole
<1> HIDE DEF whole, top, bot, part
<1>4. Stored(u, n) /\ SameLines(u, t)
  BY CheckSelectionFacts
<1>5. u.rows = n /\ u.screen \in [0 .. n-1 -> Line] /\ u.alt_which = t.alt_which
  BY <1>2, <1>4 DEF Stored, Terminals, SameLines
<1>6. SameFrame(u, t) /\ u.disptop = t.disptop /\ (Viewed(t) => Viewed(u))
  BY <1>4, SameViewed DEF SameLines, SameFrame
<1> HIDE DEF u
<1>7. CASE ~(whole /\ EraseToScrollback)
  <2>1. /\ cut \in [0 .. n-1 -> Line]
        /\ \A i \in 0 .. n-1 : cut[i].text \in {u.screen[i].text, Blank}
        /\ top <= 0 /\ bot >= n-1 /\ part = -1 => \A i \in 0 .. n-1 : cut[i].text = Blank
    <3>1. Stored(u, n) /\ top \in Int /\ bot \in Int /\ part \in Int
      BY <1>2, <1>4
    <3> QED BY <3>1, ErasedRowsFacts
  <2>2. done = WithScreen(u, cut)
    BY <1>7 DEF WithScreen
  <2> HIDE DEF cut, done
  <2>3. /\ Stored(done, n) /\ SameFrame(done, u) /\ done.screen = cut
        /\ done.scrollback = u.scrollback /\ done.tempsblines = u.tempsblines
        /\ done.disptop = u.disptop
    BY <1>4, <2>1, <2>2, WithScreenFacts
  <2>4. /\ Stored(Forgotten(done), n) /\ SameFrame(Forgotten(done), done)
        /\ Forgotten(done).screen = done.screen
        /\ Forgotten(done).scrollback = done.scrollback
        /\ Forgotten(done).disptop = done.disptop
        /\ Forgotten(done).tempsblines = IF done.alt_which = 0 THEN 0 ELSE done.tempsblines
    BY <2>3, ForgottenFacts
  <2>5. /\ Stored(res, n) /\ SameFrame(res, t) /\ res.scrollback = t.scrollback
        /\ res.screen = cut /\ res.disptop = t.disptop
        /\ ~whole \/ t.alt_which = 1 => res.tempsblines = t.tempsblines
        /\ whole /\ t.alt_which = 0 => res.tempsblines = 0
    BY <1>4, <1>6, <2>3, <2>4 DEF SameFrame, SameLines
  <2>6. \A i \in 0 .. n-1 : cut[i].text \in {t.screen[i].text, Blank}
    BY <1>4, <2>1 DEF SameLines
  <2> HIDE DEF res
  <2>7. whole => BlankRows(res)
    <3>1. whole => \A i \in 0 .. n-1 : cut[i].text = Blank
      BY <1>2, <2>1
    <3> QED BY <1>2, <2>5, <3>1 DEF BlankRows, SameFrame
  <2>8. Viewed(t) => Viewed(res)
    BY <2>5, FrameViewed
  <2> QED BY <1>1, <1>3, <2>5, <2>6, <2>7, <2>8
<1>8. CASE whole /\ EraseToScrollback
  <2>1. /\ last \in -1 .. n-1
        /\ \A j \in 0 .. n-1 : j > last => u.screen[j].text = Blank
    BY <1>5, LastLineFacts
  <2> HIDE DEF last
  <2>2. /\ Stored(done, n) /\ SameFrame(done, u)
        /\ t.alt_which = 1 => /\ done.scrollback = u.scrollback
                              /\ done.tempsblines = u.tempsblines
        /\ \A i \in 0 .. n-1 : done.screen[i].text = Blank
        /\ Viewed(u) => Viewed(done)
    <3>1. CASE last >= 0
      <4>0. PICK k \in Int : k = last + 1
        BY <2>1
      <4> DEFINE v == scroll(u, 0, last, k, TRUE)
      <4>1. done = v
        BY <1>8, <3>1, <4>0
      <4>2. last \in 0 .. n-1 /\ 0 \in Nat
        BY <2>1, <3>1
      <4> HIDE DEF done
      <4>3. /\ Stored(v, n) /\ SameScreens(v, u)
            /\ v.screen = ScrolledRows(u, 0, last, k)
            /\ u.alt_which = 1 => /\ v.scrollback = u.scrollback
                                  /\ v.tempsblines = u.tempsblines
            /\ Viewed(u) => Viewed(v)
        BY <1>4, <4>2, SavingScrollFacts
      <4> HIDE DEF v
      <4>4. ASSUME NEW i \in 0 .. n-1 PROVE v.screen[i].text = Blank
        <5>1. v.screen[i] = IF i > last THEN u.screen[i] ELSE BlankLine
          BY <1>5, <4>0, <4>2, <4>3 DEF ScrolledRows
        <5> QED BY <2>1, <5>1 DEF BlankLine
      <4> QED BY <1>5, <4>1, <4>3, <4>4 DEF SameScreens, SameFrame
    <3>2. CASE ~(last >= 0)
      <4>1. done = u /\ last = -1
        BY <1>8, <2>1, <3>2
      <4>2. \A i \in 0 .. n-1 : u.screen[i].text = Blank
        BY <2>1, <4>1
      <4> QED BY <1>4, <4>1, <4>2 DEF SameFrame
    <3> QED BY <3>1, <3>2
  <2>3. res = Forgotten(done)
    BY <1>8
  <2> HIDE DEF done, res
  <2>4. /\ Stored(res, n) /\ SameFrame(res, done) /\ res.screen = done.screen
        /\ res.scrollback = done.scrollback /\ res.disptop = done.disptop
        /\ res.tempsblines = IF done.alt_which = 0 THEN 0 ELSE done.tempsblines
    BY <2>2, <2>3, ForgottenFacts
  <2>5. /\ SameFrame(res, t)
        /\ t.alt_which = 1 => /\ res.scrollback = t.scrollback
                              /\ res.tempsblines = t.tempsblines
        /\ t.alt_which = 0 => res.tempsblines = 0
    BY <1>4, <1>6, <2>2, <2>4 DEF SameFrame, SameLines
  <2>6. BlankRows(res)
    BY <1>2, <2>2, <2>4, <2>5 DEF BlankRows, SameFrame
  <2>7. Viewed(t) => Viewed(res)
    BY <1>6, <2>2, <2>4, FrameViewed
  <2> QED BY <1>1, <1>3, <1>8, <2>4, <2>5, <2>6, <2>7
<1> QED BY <1>7, <1>8

(* The erase that every reset uses leaves the screen blank, and while the
   alternate screen is showing it leaves the scrollback alone. *)
LEMMA EraseAllFacts ==
    ASSUME cfg \in Configs, NEW n \in Nat, NEW t, Stored(t, n)
    PROVE  LET u == EraseAll(t)
           IN  /\ Stored(u, n) /\ SameFrame(u, t) /\ BlankRows(u)
               /\ t.alt_which = 1 => /\ u.scrollback = t.scrollback
                                     /\ u.tempsblines = t.tempsblines
               /\ t.alt_which = 0 => u.tempsblines = 0
               /\ Viewed(t) => Viewed(u)
<1>1. PICK yes \in BOOLEAN, no \in BOOLEAN : yes = TRUE /\ no = FALSE
  OBVIOUS
<1> DEFINE v == EraseScreen(t, yes, yes, no, no, yes)
           whole == Whole(t, yes, yes, no)
<1>2. /\ Stored(v, n) /\ SameFrame(v, t)
      /\ t.alt_which = 1 \/ ~whole => /\ v.scrollback = t.scrollback
                                     /\ v.tempsblines = t.tempsblines
      /\ whole => BlankRows(v) /\ (t.alt_which = 0 => v.tempsblines = 0)
      /\ Viewed(t) => Viewed(v)
  BY EraseScreenFacts
<1>3. whole
  BY <1>1 DEF Whole
<1>4. v = EraseAll(t)
  BY <1>1, Zenon DEF EraseAll
<1> HIDE DEF v, whole
<1> QED BY <1>2, <1>3, <1>4

(* erase_lots() of the cursor's line. *)
LEMMA EraseLineFacts ==
    ASSUME cfg \in Configs, NEW n \in Nat, NEW t, Stored(t, n),
           NEW from_begin, NEW to_end, NEW kept, NEW shared
    PROVE  LET u == EraseLine(t, from_begin, to_end, kept, shared)
           IN  /\ Stored(u, n) /\ SameFrame(u, t)
               /\ u.scrollback = t.scrollback /\ u.tempsblines = t.tempsblines
               /\ u.disptop = t.disptop
               /\ \A i \in 0 .. n-1 : u.screen[i].text \in {t.screen[i].text, Blank}
<1> DEFINE u == check_selection(t, t.cursy, t.cursy, shared)
           c == t.cursy
           l == u.screen[c]
           x == IF kept /\ ~(from_begin /\ to_end) THEN l.text ELSE Blank
           w == l.wrapped /\ ~to_end
           k == [l EXCEPT !.text = x, !.wrapped = w]
           s == [u.screen EXCEPT ![c] = k]
           v == EraseLine(t, from_begin, to_end, kept, shared)
<1>1. Stored(u, n) /\ SameLines(u, t)
  BY CheckSelectionFacts
<1>2. /\ c \in 0 .. n-1 /\ u.screen \in [0 .. n-1 -> Line] /\ u.screen = t.screen
  BY <1>1 DEF Stored, Terminals, SameLines
<1>3. v = WithScreen(u, s)
  <2>1. u \in Terminals(n)
    BY <1>1 DEF Stored
  <2>2. v = [u EXCEPT !.screen[c].text = x, !.screen[c].wrapped = w]
    BY DEF EraseLine
  <2> HIDE DEF u, v, c, x, w
  <2> QED BY <1>2, <2>1, <2>2 DEF WithScreen, Terminals, Line
<1> HIDE DEF u, v
<1>4. l \in Line /\ x \in Labels /\ w \in BOOLEAN /\ x \in {l.text, Blank}
  BY <1>2, CfgFacts DEF Line
<1> HIDE DEF x, w, l
<1>5. k \in Line /\ k.text = x
  BY <1>4 DEF Line
<1> HIDE DEF k
<1>6. /\ s \in [0 .. n-1 -> Line]
      /\ \A i \in 0 .. n-1 : s[i].text \in {t.screen[i].text, Blank}
  BY <1>2, <1>4, <1>5 DEF l
<1> HIDE DEF s
<1>7. /\ Stored(v, n) /\ SameFrame(v, u) /\ v.screen = s
      /\ v.scrollback = u.scrollback /\ v.tempsblines = u.tempsblines
      /\ v.disptop = u.disptop
  BY <1>1, <1>3, <1>6, WithScreenFacts
<1>8. /\ SameFrame(v, t) /\ v.scrollback = t.scrollback
      /\ v.tempsblines = t.tempsblines /\ v.disptop = t.disptop
  BY <1>1, <1>7 DEF SameLines, SameFrame
<1> QED BY <1>6, <1>7, <1>8 DEF v

(* The two screens change places. *)
LEMMA ExchangedFacts ==
    ASSUME NEW n \in Nat, NEW t, Stored(t, n), NEW which \in {0, 1}, NEW reset, NEW keep
    PROVE  LET u == Exchanged(t, which, reset, keep)
           IN  /\ Stored(u, n) /\ u.rows = t.rows /\ u.alt_which = which
               /\ u.screen = t.alt_screen /\ u.alt_screen = t.screen
               /\ u.scrollback = t.scrollback /\ u.tempsblines = t.tempsblines
               /\ u.disptop = t.disptop /\ u.alt_y = t.cursy
               /\ ~reset /\ ~keep => u.cursy = t.alt_y
<1> DEFINE u == Exchanged(t, which, reset, keep)
           sbl == find_last_nonempty_line(t.screen) + 1
           cy == IF reset \/ keep THEN t.cursy ELSE t.alt_y
           mt == IF reset THEN t.marg_t ELSE t.alt_t
           mb == IF reset THEN t.marg_b ELSE t.alt_b
<1>1. t \in Terminals(n)
  BY DEF Stored
<1>2. sbl \in 0 .. n
  <2>1. t.screen \in [0 .. n-1 -> Line]
    BY <1>1 DEF Terminals
  <2>2. find_last_nonempty_line(t.screen) \in -1 .. n-1
    BY <2>1, LastLineFacts
  <2> QED BY <2>2
<1>3. /\ cy \in 0 .. n-1 /\ mt \in 0 .. n-1 /\ mb \in 0 .. n-1
      /\ RegionOK(t, mt, mb)
  BY <1>1 DEF Terminals, Stored
<1>4. u = [t EXCEPT !.alt_which = which, !.screen = t.alt_screen, !.alt_screen = t.screen,
                    !.alt_sblines = sbl, !.cursy = cy, !.alt_y = t.cursy,
                    !.marg_t = mt, !.alt_t = t.marg_t, !.marg_b = mb, !.alt_b = t.marg_b]
  BY DEF Exchanged
<1>5. ~reset /\ ~keep => cy = t.alt_y
  OBVIOUS
<1> HIDE DEF u, sbl, cy, mt, mb
<1>6. /\ u \in Terminals(n) /\ u.rows = t.rows /\ u.alt_which = which
      /\ u.screen = t.alt_screen /\ u.alt_screen = t.screen
      /\ u.scrollback = t.scrollback /\ u.tempsblines = t.tempsblines
      /\ u.disptop = t.disptop /\ u.cursy = cy /\ u.alt_y = t.cursy
      /\ u.marg_t = mt /\ u.marg_b = mb /\ u.alt_t = t.marg_t /\ u.alt_b = t.marg_b
  BY <1>1, <1>2, <1>3, <1>4 DEF Terminals
<1>7. Stored(u, n)
  BY <1>3, <1>6 DEF Stored, RegionOK, Rows
<1> QED BY <1>5, <1>6, <1>7 DEF u

(* The screen that full-screen programs use, whichever is showing. *)
AltScreen(t) == IF t.alt_which = 0 THEN t.alt_screen ELSE t.screen

(* swap_screen() brings the screen asked for into use; the primary screen and the
   scrollback stay what they were, and the alternate screen stays so or is
   erased. *)
LEMMA SwapFacts ==
    ASSUME cfg \in Configs, NEW n \in Nat, NEW t, Stored(t, n), NEW which \in {0, 1},
           NEW reset, NEW keep
    PROVE  LET u == swap_screen(t, which, reset, keep)
           IN  /\ Stored(u, n) /\ u.alt_which = which
               /\ u.scrollback = t.scrollback /\ u.tempsblines = t.tempsblines
               /\ MainScreen(u) = MainScreen(t)
               /\ AltScreen(u) = AltScreen(t) \/ (which = 1 /\ BlankRows(u))
<1> DEFINE rst == which = 1 /\ reset
           v == IF which # t.alt_which THEN Exchanged(t, which, rst, keep) ELSE t
           u == swap_screen(t, which, reset, keep)
<1>1. u = IF rst THEN EraseAll(v) ELSE v
  BY DEF swap_screen
<1>2. t.alt_which \in {0, 1}
  BY DEF Stored, Terminals
<1> HIDE DEF u
<1>3. /\ Stored(v, n) /\ v.alt_which = which
      /\ v.scrollback = t.scrollback /\ v.tempsblines = t.tempsblines
      /\ MainScreen(v) = MainScreen(t) /\ AltScreen(v) = AltScreen(t)
  <2>1. CASE which # t.alt_which
    <3> DEFINE e == Exchanged(t, which, rst, keep)
    <3>1. v = e
      BY <2>1
    <3> HIDE DEF v, rst
    <3>2. /\ Stored(e, n) /\ e.alt_which = which
          /\ e.screen = t.alt_screen /\ e.alt_screen = t.screen
          /\ e.scrollback = t.scrollback /\ e.tempsblines = t.tempsblines
      BY ExchangedFacts
    <3> HIDE DEF e
    <3> QED BY <1>2, <2>1, <3>1, <3>2 DEF MainScreen, AltScreen
  <2>2. CASE which = t.alt_which
    BY <2>2
  <2> QED BY <2>1, <2>2
<1>4. CASE rst
  <2> HIDE DEF v
  <2>1. /\ Stored(EraseAll(v), n) /\ SameFrame(EraseAll(v), v) /\ BlankRows(EraseAll(v))
        /\ v.alt_which = 1 => /\ EraseAll(v).scrollback = v.scrollback
                              /\ EraseAll(v).tempsblines = v.tempsblines
    BY <1>3, EraseAllFacts
  <2>2. u = EraseAll(v) /\ which = 1
    BY <1>1, <1>4
  <2> QED BY <1>3, <2>1, <2>2 DEF MainScreen, SameFrame, u
<1>5. CASE ~rst
  <2>1. u = v
    BY <1>1, <1>5
  <2> QED BY <1>3, <2>1 DEF u
<1> QED BY <1>4, <1>5

(* swap_screen() that neither erases nor keeps the cursor's position. *)
LEMMA PlainSwapFacts ==
    ASSUME cfg \in Configs, NEW n \in Nat, NEW t, Stored(t, n), NEW which \in {0, 1}
    PROVE  LET u == swap_screen(t, which, FALSE, FALSE)
           IN  /\ Stored(u, n) /\ u.alt_which = which
               /\ u.scrollback = t.scrollback /\ u.tempsblines = t.tempsblines
               /\ MainScreen(u) = MainScreen(t) /\ AltScreen(u) = AltScreen(t)
               /\ MainCursor(u) = MainCursor(t) /\ u.disptop = t.disptop
               /\ u = IF which = t.alt_which THEN t ELSE Exchanged(t, which, FALSE, FALSE)
<1>1. PICK no \in BOOLEAN : no = FALSE
  OBVIOUS
<1> DEFINE v == swap_screen(t, which, no, no)
           e == Exchanged(t, which, no, no)
           f == Exchanged(t, which, FALSE, FALSE)
<1>2. /\ Stored(v, n) /\ v.alt_which = which
      /\ v.scrollback = t.scrollback /\ v.tempsblines = t.tempsblines
      /\ MainScreen(v) = MainScreen(t)
  BY SwapFacts
<1>3. v = swap_screen(t, which, FALSE, FALSE) /\ e = f
  BY <1>1, Zenon
<1>4. (which = 1 /\ no) = FALSE
  BY <1>1
<1>5. v = IF which = t.alt_which THEN t ELSE e
  BY <1>1, <1>4 DEF swap_screen
<1>6. /\ AltScreen(v) = AltScreen(t) /\ MainCursor(v) = MainCursor(t)
      /\ v.disptop = t.disptop
  <2>1. t.alt_which \in {0, 1}
    BY DEF Stored, Terminals
  <2>2. /\ e.alt_which = which /\ e.screen = t.alt_screen /\ e.alt_screen = t.screen
        /\ e.cursy = t.alt_y /\ e.alt_y = t.cursy /\ e.disptop = t.disptop
    BY <1>1, ExchangedFacts
  <2> HIDE DEF e, v
  <2> QED BY <1>5, <2>1, <2>2 DEF AltScreen, MainCursor
<1> HIDE DEF v, e, f
<1> QED BY <1>2, <1>3, <1>5, <1>6 DEF f

(* The same, named for the screen it brings into use. *)
Shown(t, which) == swap_screen(t, which, FALSE, FALSE)
LEMMA ShownFacts ==
    ASSUME cfg \in Configs, NEW n \in Nat, NEW t, Stored(t, n), NEW which \in {0, 1}
    PROVE  LET u == Shown(t, which)
           IN  /\ Stored(u, n) /\ u.alt_which = which
               /\ u.scrollback = t.scrollback /\ u.tempsblines = t.tempsblines
               /\ MainScreen(u) = MainScreen(t) /\ AltScreen(u) = AltScreen(t)
               /\ MainCursor(u) = MainCursor(t) /\ u.disptop = t.disptop
BY PlainSwapFacts, Zenon DEF Shown

(* term_clrsb() empties the scrollback and shows the bottom of the buffer. *)
LEMMA ClearFacts ==
    ASSUME cfg \in Configs, NEW n \in Nat, NEW t, Stored(t, n)
    PROVE  LET u == term_clrsb(t)
           IN  /\ Stored(u, n) /\ u.disptop = 0 /\ u.rows = t.rows
               /\ u.alt_which = t.alt_which
               /\ u.screen = t.screen /\ u.alt_screen = t.alt_screen
               /\ u.scrollback = <<>> /\ u.tempsblines = 0
<1> DEFINE u == term_clrsb(t)
           e == <<>>
<1>1. e \in Seq(Line) /\ Len(e) = 0
  BY EmptySeq
<1>2. PICK d \in Int, k \in Nat, a \in 0 .. n : d = 0 /\ k = 0 /\ a = 0
  OBVIOUS
<1>3. u = [t EXCEPT !.disptop = d, !.scrollback = e, !.tempsblines = k, !.alt_sblines = a]
  BY <1>2 DEF term_clrsb
<1> HIDE DEF u, e
<1>4. t \in Terminals(n) /\ e \in Seq(Line)
  BY <1>1 DEF Stored
<1>5. u \in Terminals(n)
  BY <1>3, <1>4 DEF Terminals
<1>6. /\ u.disptop = d /\ u.rows = t.rows /\ u.alt_which = t.alt_which
      /\ u.screen = t.screen /\ u.alt_screen = t.alt_screen
      /\ u.scrollback = e /\ u.tempsblines = k
      /\ u.marg_t = t.marg_t /\ u.marg_b = t.marg_b
      /\ u.alt_t = t.alt_t /\ u.alt_b = t.alt_b
  BY <1>3, <1>4 DEF Terminals
<1>7. Stored(u, n)
  BY <1>1, <1>2, <1>5, <1>6, CfgFacts DEF Stored, RegionOK, Rows
<1> QED BY <1>2, <1>6, <1>7 DEF u, e

(* The cursor put on a row, nothing else. *)
LEMMA WithCursorFacts ==
    ASSUME NEW n \in Nat, NEW t, Stored(t, n), NEW y \in 0 .. n-1
    PROVE  LET u == [t EXCEPT !.cursy = y]
           IN  /\ Stored(u, n) /\ u.rows = t.rows /\ u.alt_which = t.alt_which
               /\ u.screen = t.screen /\ u.alt_screen = t.alt_screen
               /\ u.scrollback = t.scrollback /\ u.tempsblines = t.tempsblines
               /\ u.disptop = t.disptop /\ u.alt_sblines = t.alt_sblines
               /\ u.marg_t = t.marg_t /\ u.marg_b = t.marg_b
<1> DEFINE u == [t EXCEPT !.cursy = y]
<1>1. /\ u.rows = t.rows /\ u.alt_which = t.alt_which
      /\ u.screen = t.screen /\ u.alt_screen = t.alt_screen
      /\ u.scrollback = t.scrollback /\ u.tempsblines = t.tempsblines
      /\ u.disptop = t.disptop /\ u.alt_sblines = t.alt_sblines
      /\ u.marg_t = t.marg_t /\ u.marg_b = t.marg_b
  BY DEF Stored, Terminals
<1> QED BY <1>1, CursorStored

(* Full margins and cursors at the top of both screens, the primary one in use. *)
AsPrimary(t) ==
    [t EXCEPT !.alt_y = 0, !.alt_which = 0,
              !.marg_t = 0, !.alt_t = 0,
              !.marg_b = t.rows - 1, !.alt_b = t.rows - 1]
LEMMA AsPrimaryFacts ==
    ASSUME NEW n \in Nat, n >= 1, NEW t, Stored(t, n)
    PROVE  LET u == AsPrimary(t)
           IN  /\ Stored(u, n) /\ u.alt_which = 0
               /\ u.screen = t.screen /\ u.alt_screen = t.alt_screen
               /\ u.scrollback = t.scrollback /\ u.tempsblines = t.tempsblines
<1> DEFINE u == AsPrimary(t)
<1>1. PICK b \in 0 .. n-1, z \in 0 .. n-1, w \in {0, 1} : b = n - 1 /\ z = 0 /\ w = 0
  OBVIOUS
<1>2. t.rows = n /\ t \in Terminals(n)
  BY DEF Stored, Terminals
<1>3. u = [t EXCEPT !.alt_y = z, !.alt_which = w, !.marg_t = z, !.alt_t = z,
                    !.marg_b = b, !.alt_b = b]
  <2>1. t.rows = n
    BY <1>2
  <2> QED BY <1>1, <2>1 DEF AsPrimary
<1> HIDE DEF u
<1>4. /\ u \in Terminals(n) /\ u.alt_which = w
      /\ u.screen = t.screen /\ u.alt_screen = t.alt_screen
      /\ u.scrollback = t.scrollback /\ u.tempsblines = t.tempsblines
      /\ u.rows = t.rows /\ u.marg_t = z /\ u.marg_b = b /\ u.alt_t = z /\ u.alt_b = b
  <2>1. u \in Terminals(n)
    BY <1>2, <1>3 DEF Terminals
  <2>2. u.alt_which = w /\ u.marg_t = z /\ u.marg_b = b /\ u.alt_t = z /\ u.alt_b = b
    BY <1>2, <1>3 DEF Terminals
  <2>3. /\ u.screen = t.screen /\ u.alt_screen = t.alt_screen
        /\ u.scrollback = t.scrollback /\ u.tempsblines = t.tempsblines /\ u.rows = t.rows
    BY <1>2, <1>3 DEF Terminals
  <2> QED BY <2>1, <2>2, <2>3
<1>5. Stored(u, n)
  BY <1>1, <1>2, <1>4 DEF Stored, RegionOK, Rows
<1> QED BY <1>1, <1>4, <1>5 DEF u

(* power_on() turns the terminal back to the primary screen, which gets what was
   showing; the cursor goes below the last line of it, and only if there is no row
   below does the top line go to the scrollback. *)
LEMMA PowerOnFacts ==
    ASSUME cfg \in Configs, NEW n \in Nat, n >= 1, NEW t, Stored(t, n), NEW clear
    PROVE  LET u == power_on(t, clear)
           IN  /\ Stored(u, n) /\ u.alt_which = 0
               /\ clear => BlankRows(u) /\ u.tempsblines = 0
<1> DEFINE reset == AsPrimary(t)
           swapped == swap_screen(reset, 1, FALSE, FALSE)
           alt == EraseAll(swapped)
           main == swap_screen(alt, 0, FALSE, FALSE)
           clean == IF clear THEN EraseAll(main) ELSE main
           y == find_last_nonempty_line(clean.screen) + 1
           placed == [clean EXCEPT !.cursy = y - 1]
           u == power_on(t, clear)
<1>0. u = IF y = t.rows THEN scroll(placed, 0, t.rows - 1, 1, TRUE)
          ELSE [clean EXCEPT !.cursy = y]
  BY DEF power_on, AsPrimary
<1> HIDE DEF u
<1>1. Stored(reset, n)
  BY AsPrimaryFacts
<1>2. Stored(swapped, n)
  <2> HIDE DEF reset
  <2> QED BY <1>1, PlainSwapFacts
<1>3. Stored(alt, n)
  <2> HIDE DEF swapped
  <2> QED BY <1>2, EraseAllFacts
<1>4. Stored(main, n) /\ main.alt_which = 0
  <2> HIDE DEF alt
  <2> QED BY <1>3, PlainSwapFacts
<1> HIDE DEF main
<1>5. /\ Stored(clean, n) /\ clean.alt_which = 0
      /\ clear => BlankRows(clean) /\ clean.tempsblines = 0
  BY <1>4, EraseAllFacts DEF SameFrame
<1> HIDE DEF clean
<1>6. /\ clean.screen \in [0 .. n-1 -> Line] /\ clean.rows = n /\ t.rows = n
  BY <1>5 DEF Stored, Terminals
<1>7. y \in 0 .. n /\ (clear => y = 0)
  <2>1. find_last_nonempty_line(clean.screen) \in -1 .. n-1
    BY <1>6, LastLineFacts
  <2>2. ASSUME clear PROVE find_last_nonempty_line(clean.screen) = -1
    <3>1. ~ \E i \in DOMAIN clean.screen : IsLastNonempty(clean.screen, i)
      BY <1>5, <1>6, <2>2 DEF BlankRows, IsLastNonempty
    <3> QED BY <3>1 DEF find_last_nonempty_line
  <2> QED BY <2>1, <2>2
<1>8. CASE y = t.rows
  <2>1. y - 1 \in 0 .. n-1 /\ n - 1 \in 0 .. n-1 /\ 0 \in Nat /\ ~clear
    BY <1>6, <1>7, <1>8
  <2> HIDE DEF y
  <2>2. Stored(placed, n) /\ placed.alt_which = 0
    BY <1>5, <2>1, WithCursorFacts
  <2> HIDE DEF placed
  <2>3. PICK top \in Nat, bot \in 0 .. n-1, k \in Int : top = 0 /\ bot = n - 1 /\ k = 1
    BY <2>1
  <2> DEFINE v == scroll(placed, top, bot, k, TRUE)
  <2>4. u = v
    BY <1>0, <1>6, <1>8, <2>3
  <2>5. Stored(v, n) /\ SameScreens(v, placed)
    BY <2>2, SavingScrollFacts
  <2> HIDE DEF v
  <2> QED BY <2>1, <2>2, <2>4, <2>5 DEF SameScreens, u
<1>9. CASE y # t.rows
  <2>1. y \in 0 .. n-1
    BY <1>6, <1>7, <1>9
  <2> HIDE DEF y
  <2> DEFINE v == [clean EXCEPT !.cursy = y]
  <2>2. /\ Stored(v, n) /\ v.rows = clean.rows /\ v.alt_which = clean.alt_which
        /\ v.screen = clean.screen /\ v.tempsblines = clean.tempsblines
    BY <1>5, <2>1, WithCursorFacts
  <2>3. u = v
    BY <1>0, <1>9
  <2> HIDE DEF v
  <2> QED BY <1>5, <2>2, <2>3 DEF BlankRows, u
<1> QED BY <1>8, <1>9

-----------------------------------------------------------------------------
(* What output to the screen that shows does: it leaves the other screen alone,
   feeds the scrollback only from the primary screen, and keeps a view of the
   buffer inside the buffer. *)
IsOutput(u, t, n) ==
    /\ Stored(u, n) /\ u.rows = t.rows
    /\ u.alt_which = t.alt_which /\ u.alt_screen = t.alt_screen
    /\ t.alt_which = 1 => u.scrollback = t.scrollback
    /\ Viewed(t) => Viewed(u)

(* One piece of output after another is output. *)
LEMMA OutputComposes ==
    ASSUME NEW n, NEW t, NEW u, NEW v, IsOutput(u, t, n), IsOutput(v, u, n)
    PROVE  IsOutput(v, t, n)
BY DEF IsOutput

(* A call that touches only the selection is output. *)
LEMMA SelectionOutput ==
    ASSUME NEW n \in Nat, NEW t, Stored(t, n), NEW u, Stored(u, n), SameLines(u, t)
    PROVE  IsOutput(u, t, n)
BY SameViewed DEF IsOutput, SameLines

(* So is a new screen in place of the old one ... *)
LEMMA ScreenOutput ==
    ASSUME NEW n \in Nat, NEW t, Stored(t, n), NEW s \in [0 .. n-1 -> Line]
    PROVE  IsOutput(WithScreen(t, s), t, n)
<1> DEFINE u == WithScreen(t, s)
<1>1. /\ Stored(u, n) /\ SameFrame(u, t)
      /\ u.scrollback = t.scrollback /\ u.disptop = t.disptop
  BY WithScreenFacts
<1> HIDE DEF u
<1>2. Viewed(t) => Viewed(u)
  BY <1>1 DEF Viewed, sblines, altlines, SameFrame
<1> QED BY <1>1, <1>2 DEF IsOutput, SameFrame, u

(* ... a move of the cursor ... *)
LEMMA CursorOutput ==
    ASSUME NEW n \in Nat, NEW t, Stored(t, n), NEW y \in 0 .. n-1
    PROVE  IsOutput([t EXCEPT !.cursy = y], t, n)
<1> DEFINE u == [t EXCEPT !.cursy = y]
<1>1. /\ Stored(u, n) /\ u.rows = t.rows /\ u.alt_which = t.alt_which
      /\ u.alt_screen = t.alt_screen /\ u.scrollback = t.scrollback
      /\ u.disptop = t.disptop /\ u.alt_sblines = t.alt_sblines
  BY WithCursorFacts
<1> HIDE DEF u
<1>2. Viewed(t) => Viewed(u)
  BY <1>1 DEF Viewed, sblines, altlines
<1> QED BY <1>1, <1>2 DEF IsOutput, u

(* ... and a scroll. *)
LEMMA ScrollOutput ==
    ASSUME cfg \in Configs, NEW n \in Nat, NEW t, Stored(t, n),
           NEW top \in Nat, NEW bot \in 0 .. n-1, NEW k \in Int
    PROVE  /\ IsOutput(scroll(t, top, bot, k, TRUE), t, n)
           /\ IsOutput(scroll(t, top, bot, k, FALSE), t, n)
<1>1. ASSUME NEW sb PROVE IsOutput(scroll(t, top, bot, k, sb), t, n)
  <2> DEFINE u == scroll(t, top, bot, k, sb)
  <2>1. /\ Stored(u, n) /\ SameScreens(u, t)
        /\ t.alt_which = 1 \/ ~sb => /\ u.scrollback = t.scrollback
                                    /\ u.tempsblines = t.tempsblines
        /\ Viewed(t) => Viewed(u)
    BY ScrollFacts
  <2> HIDE DEF u
  <2> QED BY <2>1 DEF IsOutput, SameScreens, u
<1> QED BY <1>1, Zenon

(* LF and its kind. *)
LEMMA LineFeedOutput ==
    ASSUME cfg \in Configs, NEW n \in Nat, NEW t, Stored(t, n)
    PROVE  IsOutput(LineFeedOf(t), t, n)
<1>1. /\ t.rows = n /\ t.cursy \in 0 .. n-1
      /\ t.marg_t \in 0 .. n-1 /\ t.marg_b \in 0 .. n-1
  BY DEF Stored, Terminals
<1>2. CASE t.cursy = t.marg_b
  <2>1. PICK k \in Int, top \in Nat, bot \in 0 .. n-1 :
            k = 1 /\ top = t.marg_t /\ bot = t.marg_b
    BY <1>1
  <2>2. IsOutput(scroll(t, top, bot, k, TRUE), t, n)
    BY ScrollOutput
  <2> QED BY <1>2, <2>1, <2>2 DEF LineFeedOf
<1>3. CASE t.cursy # t.marg_b /\ t.cursy < t.rows - 1
  <2>1. PICK y \in 0 .. n-1 : y = t.cursy + 1
    BY <1>1, <1>3
  <2>2. IsOutput([t EXCEPT !.cursy = y], t, n)
    BY CursorOutput
  <2> QED BY <1>3, <2>1, <2>2 DEF LineFeedOf
<1>4. CASE t.cursy # t.marg_b /\ ~(t.cursy < t.rows - 1)
  <2>1. LineFeedOf(t) = t
    BY <1>4 DEF LineFeedOf
  <2> QED BY <2>1 DEF IsOutput
<1> QED BY <1>2, <1>3, <1>4

(* RI, within whatever region of the screen. *)
LEMMA ReverseIndexOutput ==
    ASSUME cfg \in Configs, NEW n \in Nat, NEW t, Stored(t, n),
           NEW top \in Nat, NEW bot \in 0 .. n-1
    PROVE  IsOutput(ReverseIndexOf(t, top, bot), t, n)
<1>1. t.cursy \in 0 .. n-1
  BY DEF Stored, Terminals
<1>2. CASE t.cursy = top
  <2>1. PICK k \in Int : k = -1
    OBVIOUS
  <2>2. IsOutput(scroll(t, top, bot, k, TRUE), t, n)
    BY <1>1, ScrollOutput
  <2> QED BY <1>2, <2>1, <2>2 DEF ReverseIndexOf
<1>3. CASE t.cursy # top /\ t.cursy > 0
  <2>1. PICK y \in 0 .. n-1 : y = t.cursy - 1
    BY <1>1, <1>3
  <2>2. IsOutput([t EXCEPT !.cursy = y], t, n)
    BY CursorOutput
  <2> QED BY <1>3, <2>1, <2>2 DEF ReverseIndexOf
<1>4. CASE t.cursy # top /\ ~(t.cursy > 0)
  <2>1. ReverseIndexOf(t, top, bot) = t
    BY <1>4 DEF ReverseIndexOf
  <2> QED BY <2>1 DEF IsOutput
<1> QED BY <1>2, <1>3, <1>4

(* The cursor's row is marked as continuing on the next. *)
WrapMarked(t) == [t.screen EXCEPT ![t.cursy] = [@ EXCEPT !.wrapped = TRUE]]
LEMMA WrapMarkedFacts ==
    ASSUME NEW n \in Nat, NEW t, Stored(t, n)
    PROVE  /\ WrapMarked(t) \in [0 .. n-1 -> Line]
           /\ \A i \in 0 .. n-1 : WrapMarked(t)[i].text = t.screen[i].text
           /\ WrapOf(t) = LineFeedOf(WithScreen(t, WrapMarked(t)))
<1> DEFINE c == t.cursy
           l == t.screen[c]
           k == [l EXCEPT !.wrapped = TRUE]
<1>1. /\ t \in Terminals(n) /\ c \in 0 .. n-1 /\ t.screen \in [0 .. n-1 -> Line]
  BY DEF Stored, Terminals
<1>2. l \in Line
  BY <1>1
<1> HIDE DEF l
<1>3. PICK yes \in BOOLEAN : yes = TRUE
  OBVIOUS
<1>4. [l EXCEPT !.wrapped = yes] \in Line /\ [l EXCEPT !.wrapped = yes].text = l.text
  BY <1>2 DEF Line
<1>5. k \in Line /\ k.text = l.text
  BY <1>3, <1>4
<1>6. WrapMarked(t) = [t.screen EXCEPT ![c] = k]
  BY DEF WrapMarked, l
<1>7. WrapOf(t) = LineFeedOf(WithScreen(t, WrapMarked(t)))
  BY DEF WrapOf, WithScreen, WrapMarked
<1> HIDE DEF k
<1> QED BY <1>1, <1>5, <1>6, <1>7 DEF l

(* A wrap to the next line ... *)
LEMMA WrapOutput ==
    ASSUME cfg \in Configs, NEW n \in Nat, NEW t, Stored(t, n)
    PROVE  IsOutput(WrapOf(t), t, n)
<1> DEFINE u == WithScreen(t, WrapMarked(t))
<1>1. IsOutput(u, t, n)
  BY WrapMarkedFacts, ScreenOutput
<1> HIDE DEF u
<1>2. IsOutput(LineFeedOf(u), u, n)
  BY <1>1, LineFeedOutput DEF IsOutput
<1>3. WrapOf(t) = LineFeedOf(u)
  BY WrapMarkedFacts DEF u
<1> QED BY <1>1, <1>2, <1>3, OutputComposes

(* ... and a character. *)
Written(t, x) == [t.screen EXCEPT ![t.cursy] = [@ EXCEPT !.text = x]]
LEMMA WrittenFacts ==
    ASSUME NEW n \in Nat, NEW t, Stored(t, n), NEW x \in Labels, NEW shared
    PROVE  \E u : /\ Stored(u, n) /\ SameLines(u, t)
                  /\ Written(u, x) \in [0 .. n-1 -> Line]
                  /\ \A i \in 0 .. n-1 : Written(u, x)[i].text \in {t.screen[i].text, x}
                  /\ PutOf(t, x, shared) = WithScreen(u, Written(u, x))
<1> DEFINE u == check_selection(t, t.cursy, t.cursy, shared)
           c == t.cursy
           l == t.screen[c]
           k == [l EXCEPT !.text = x]
<1>1. Stored(u, n) /\ SameLines(u, t)
  BY CheckSelectionFacts
<1>2. PutOf(t, x, shared) = [u EXCEPT !.screen[t.cursy].text = x]
  BY DEF PutOf
<1> HIDE DEF u
<1>3. /\ c \in 0 .. n-1 /\ t.screen \in [0 .. n-1 -> Line]
      /\ u.screen = t.screen /\ u.cursy = c
  BY <1>1 DEF Stored, Terminals, SameLines
<1>4. l \in Line
  BY <1>3
<1>5. k \in Line /\ k.text = x
  BY <1>4 DEF Line
<1>6. Written(u, x) = [t.screen EXCEPT ![c] = k]
  BY <1>3 DEF Written
<1>7. PutOf(t, x, shared) = WithScreen(u, Written(u, x))
  BY <1>2, <1>3 DEF Written, WithScreen
<1> HIDE DEF k, l
<1>8. /\ Written(u, x) \in [0 .. n-1 -> Line]
      /\ \A i \in 0 .. n-1 : Written(u, x)[i].text \in {t.screen[i].text, x}
  BY <1>3, <1>5, <1>6
<1> QED BY <1>1, <1>7, <1>8

(* A character is output too. *)
LEMMA PutOutput ==
    ASSUME NEW n \in Nat, NEW t, Stored(t, n), NEW x \in Labels, NEW shared
    PROVE  IsOutput(PutOf(t, x, shared), t, n)
<1>1. PICK u : /\ Stored(u, n) /\ SameLines(u, t)
               /\ Written(u, x) \in [0 .. n-1 -> Line]
               /\ PutOf(t, x, shared) = WithScreen(u, Written(u, x))
  BY WrittenFacts
<1>2. IsOutput(u, t, n)
  BY <1>1, SelectionOutput
<1>3. IsOutput(WithScreen(u, Written(u, x)), u, n)
  BY <1>1, ScreenOutput
<1> QED BY <1>1, <1>2, <1>3, OutputComposes

-----------------------------------------------------------------------------
(* A change of size. *)

(* Half-way through term_size(): the primary screen has its new number of rows
   m and the rest still has the old number n. *)
Refitted(n, m) ==
    [rows : {m}, screen : [0 .. m-1 -> Line], alt_screen : [0 .. n-1 -> Line],
     scrollback : Seq(Line), tempsblines : Nat, disptop : Int,
     alt_which : {0, 1}, alt_sblines : 0 .. n,
     cursy : Int, alt_y : 0 .. n-1,
     marg_t : 0 .. n-1, marg_b : 0 .. n-1, alt_t : 0 .. n-1, alt_b : 0 .. n-1,
     selstate : SelStates, selempty : BOOLEAN,
     selstart : Int, selend : Int, selanchor : Int]

(* The fields term_size() sets on the way there. *)
Refit(u, m, scr, sb, k, y) ==
    [u EXCEPT !.screen = scr, !.scrollback = sb, !.tempsblines = k, !.cursy = y, !.rows = m]
Fitting(n, u, m, scr, sb, k, y) ==
    /\ n \in Nat /\ u \in Terminals(n) /\ m \in Nat /\ scr \in [0 .. m-1 -> Line]
    /\ sb \in Seq(Line) /\ k \in Nat /\ y \in Int
LEMMA RefitFacts ==
    ASSUME NEW n, NEW u, NEW m, NEW scr, NEW sb, NEW k, NEW y, Fitting(n, u, m, scr, sb, k, y)
    PROVE  LET v == Refit(u, m, scr, sb, k, y)
           IN  /\ v \in Refitted(n, m) /\ v.alt_which = u.alt_which
               /\ v.screen = scr /\ v.scrollback = sb /\ v.tempsblines = k /\ v.cursy = y
BY DEF Fitting, Refit, Refitted, Terminals

(* The primary screen of a taller and of a shorter window, and the scrollback of
   each. *)
TallerScreen(scr, sb, k, n, m) ==
    [i \in 0 .. m - 1 |-> IF i < k THEN sb[Len(sb) - k + 1 + i]
                          ELSE IF i < k + n THEN scr[i - k]
                          ELSE BlankLine]
ShorterScreen(scr, k, m) == [i \in 0 .. m - 1 |-> scr[i + k]]
IsOldest(sb, old, l) == Len(sb) = l /\ \A i \in 1 .. l : sb[i] = old[i]
(* sb holds old and the top k rows of scr, but for what the oldest n left. *)
IsPushed(sb, old, scr, k, n) ==
    LET l == Len(old)
    IN  /\ Len(sb) = (l + k) - n
        /\ \A i \in 1 .. Len(sb) :
              sb[i] = IF i + n <= l THEN old[i + n] ELSE scr[(i + n) - l - 1]

(* A taller window takes lines back from the scrollback, and only those that
   may be taken back; the rest of the new rows is blank and below the old ones. *)
LEMMA GrownFacts ==
    ASSUME cfg \in Configs, NEW n \in Nat, NEW u, Stored(u, n), NEW m \in Nat, m >= n
    PROVE  LET v == Grown(u, m)
               k == Returned(u, m - n)
               l == Len(u.scrollback)
           IN  /\ v \in Refitted(n, m) /\ v.alt_which = u.alt_which
               /\ k \in Nat /\ k <= u.tempsblines /\ k <= m - n
               /\ (k = m - n \/ k = u.tempsblines) /\ l \in Nat /\ k <= l
               /\ v.screen = TallerScreen(u.screen, u.scrollback, k, n, m)
               /\ IsOldest(v.scrollback, u.scrollback, l - k)
               /\ v.tempsblines = u.tempsblines - k
               /\ v.cursy = u.cursy + k
<1> DEFINE v == Grown(u, m)
           k == Returned(u, m - n)
           l == Len(u.scrollback)
           row(i) == IF i < k THEN u.scrollback[l - k + 1 + i]
                     ELSE IF i < k + n THEN u.screen[i - k]
                     ELSE BlankLine
           scr == [i \in 0 .. m - 1 |-> row(i)]
           sb == SubSeq(u.scrollback, 1, l - k)
           j == u.tempsblines - k
           y == u.cursy + k
<1>1. /\ u \in Terminals(n) /\ u.rows = n /\ u.screen \in [0 .. n-1 -> Line]
      /\ u.scrollback \in Seq(Line) /\ l \in Nat
      /\ u.tempsblines \in Nat /\ u.tempsblines <= l /\ u.cursy \in 0 .. n-1
  BY LenProperties DEF Stored, Terminals
<1>2. /\ k \in Nat /\ k <= u.tempsblines /\ k <= m - n /\ k <= l
      /\ (k = m - n \/ k = u.tempsblines)
  BY <1>1 DEF Returned, Lesser
<1>3. v = [u EXCEPT !.screen = scr, !.scrollback = sb, !.tempsblines = j,
                    !.cursy = y, !.rows = m]
  BY <1>1 DEF Grown
<1> HIDE DEF v, k, l
<1>4. ASSUME NEW i \in 0 .. m-1 PROVE row(i) \in Line
  <2>1. CASE i < k
    <3>1. l - k + 1 + i \in 1 .. l
      BY <1>1, <1>2, <2>1
    <3>2. u.scrollback[l - k + 1 + i] \in Line
      BY <1>1, <3>1, ElementOfSeq DEF l
    <3> QED BY <2>1, <3>2
  <2>2. CASE ~(i < k) /\ i < k + n
    <3>1. i - k \in 0 .. n-1
      BY <1>2, <2>2
    <3>2. u.screen[i - k] \in Line
      BY <1>1, <3>1
    <3> QED BY <2>2, <3>2
  <2>3. CASE ~(i < k) /\ ~(i < k + n)
    BY <2>3, CfgFacts
  <2> QED BY <2>1, <2>2, <2>3
<1>5. scr \in [0 .. m-1 -> Line]
  BY <1>4
<1>6. /\ sb \in Seq(Line) /\ Len(sb) = l - k
      /\ \A i \in 1 .. l - k : sb[i] = u.scrollback[i]
  <2>1. \A i \in 1 .. l - k : u.scrollback[i] \in Line
    BY <1>1, <1>2, ElementOfSeq DEF l
  <2>2. PICK one \in Int : one = 1
    OBVIOUS
  <2>3. /\ SubSeq(u.scrollback, one, l - k) \in Seq(Line)
        /\ Len(SubSeq(u.scrollback, one, l - k)) =
              IF one <= l - k THEN (l - k) - one + 1 ELSE 0
        /\ \A i \in 1 .. (l - k) - one + 1 :
              SubSeq(u.scrollback, one, l - k)[i] = u.scrollback[one + i - 1]
    BY <1>1, <1>2, <2>1, <2>2, SubSeqProperties
  <2>4. sb = SubSeq(u.scrollback, one, l - k)
    BY <2>2
  <2> HIDE DEF sb
  <2>5. sb \in Seq(Line) /\ Len(sb) = l - k
    BY <1>1, <1>2, <2>2, <2>3, <2>4
  <2>6. \A i \in 1 .. l - k : sb[i] = u.scrollback[i]
    BY <1>1, <1>2, <2>2, <2>3, <2>4
  <2> QED BY <2>5, <2>6
<1>7. j \in Nat /\ y \in Int
  BY <1>1, <1>2
<1>8. v = Refit(u, m, scr, sb, j, y)
  BY <1>3 DEF Refit
<1>9. scr = TallerScreen(u.screen, u.scrollback, k, n, m)
  BY DEF TallerScreen, l
<1> HIDE DEF scr, sb, j, y
<1>10. /\ v \in Refitted(n, m) /\ v.alt_which = u.alt_which
       /\ v.screen = scr /\ v.scrollback = sb /\ v.tempsblines = j /\ v.cursy = y
  <2> DEFINE r == Refit(u, m, scr, sb, j, y)
  <2>1. /\ r \in Refitted(n, m) /\ r.alt_which = u.alt_which
        /\ r.screen = scr /\ r.scrollback = sb /\ r.tempsblines = j /\ r.cursy = y
    <3>1. Fitting(n, u, m, scr, sb, j, y)
      BY <1>1, <1>5, <1>6, <1>7 DEF Fitting
    <3> QED BY <3>1, RefitFacts
  <2> QED BY <1>8, <2>1
<1>11. IsOldest(sb, u.scrollback, l - k)
  BY <1>6 DEF IsOldest
<1> QED BY <1>1, <1>2, <1>9, <1>10, <1>11 DEF v, k, l, j, y

(* A shorter window loses rows below its cursor, and when there are too few of
   those the top rows go to the scrollback. *)
LEMMA ShrunkFacts ==
    ASSUME cfg \in Configs, NEW n \in Nat, NEW u, Stored(u, n), NEW m \in Nat, m < n
    PROVE  LET v == Shrunk(u, m)
               k == Pushed(u, n - m)
               l == Len(u.scrollback)
           IN  /\ v \in Refitted(n, m) /\ v.alt_which = u.alt_which
               /\ k \in Nat /\ k <= n - m /\ l \in Nat
               /\ m >= 1 => u.cursy - k \in 0 .. m-1
               /\ v.screen = ShorterScreen(u.screen, k, m)
               /\ Len(v.scrollback) = l + k
               /\ IsPushed(v.scrollback, u.scrollback, u.screen, k, 0)
               /\ v.tempsblines = u.tempsblines + k
               /\ v.cursy = u.cursy - k
<1> DEFINE v == Shrunk(u, m)
           k == Pushed(u, n - m)
           l == Len(u.scrollback)
           scr == [i \in 0 .. m - 1 |-> u.screen[i + k]]
           top == [i \in 1 .. k |-> u.screen[i - 1]]
           sb == u.scrollback \o top
           j == u.tempsblines + k
           y == u.cursy - k
<1>1. /\ u \in Terminals(n) /\ u.rows = n /\ u.screen \in [0 .. n-1 -> Line]
      /\ u.scrollback \in Seq(Line) /\ l \in Nat
      /\ u.tempsblines \in Nat /\ u.tempsblines <= l /\ u.cursy \in 0 .. n-1
  BY LenProperties DEF Stored, Terminals
<1>2. /\ k \in Nat /\ k <= n - m
      /\ m >= 1 => u.cursy - k \in 0 .. m-1
  <2>1. PICK c \in 0 .. n-1 : c = u.cursy
    BY <1>1
  <2>2. PICK d \in Nat : d = n - m
    OBVIOUS
  <2>3. PICK e \in Nat : e = n - 1 - c
    BY <2>1
  <2>4. Greater(n - 1 - c, 0) = e
    BY <2>3 DEF Greater
  <2>5. k = d - Lesser(d, e)
    BY <1>1, <2>1, <2>2, <2>4 DEF Pushed, Deleted
  <2> HIDE DEF k
  <2>6. (k = 0 /\ d <= e) \/ (k = d - e /\ d > e)
    BY <2>5 DEF Lesser
  <2> QED BY <2>1, <2>2, <2>3, <2>6
<1>3. v = [u EXCEPT !.screen = scr, !.scrollback = sb, !.tempsblines = j,
                    !.cursy = y, !.rows = m]
  <2>1. u.rows = n
    BY <1>1
  <2> QED BY <2>1 DEF Shrunk
<1> HIDE DEF v, k, l
<1>4. scr \in [0 .. m-1 -> Line] /\ top \in [1 .. k -> Line]
  <2>1. \A i \in 0 .. m - 1 : i + k \in 0 .. n-1
    BY <1>2
  <2>2. \A i \in 1 .. k : i - 1 \in 0 .. n-1
    BY <1>2
  <2>3. \A i \in 0 .. n-1 : u.screen[i] \in Line
    BY <1>1
  <2> QED BY <2>1, <2>2, <2>3
<1>5. top \in Seq(Line) /\ Len(top) = k
  <2> HIDE DEF top
  <2> QED BY <1>2, <1>4, FunctionIsSeq
<1>6. /\ sb \in Seq(Line) /\ Len(sb) = l + k
      /\ \A i \in 1 .. l + k : sb[i] =
            IF i <= l THEN u.scrollback[i] ELSE u.screen[i - l - 1]
  <2>1. \A i \in 1 .. k : top[i] = u.screen[i - 1]
    OBVIOUS
  <2> HIDE DEF top
  <2>2. /\ sb \in Seq(Line) /\ Len(sb) = l + k
        /\ \A i \in 1 .. l + k : sb[i] = IF i <= l THEN u.scrollback[i] ELSE top[i - l]
    BY <1>1, <1>5, ConcatProperties DEF l
  <2> HIDE DEF sb
  <2>3. ASSUME NEW i \in 1 .. l + k, ~(i <= l) PROVE top[i - l] = u.screen[i - l - 1]
    <3>1. PICK h \in 1 .. k : h = i - l
      BY <1>1, <1>2, <2>3
    <3>2. h - 1 = i - l - 1
      BY <3>1
    <3> QED BY <2>1, <3>1, <3>2
  <2> QED BY <1>1, <1>2, <2>2, <2>3
<1>7. j \in Nat /\ y \in Int
  BY <1>1, <1>2
<1>8. v = Refit(u, m, scr, sb, j, y)
  BY <1>3 DEF Refit
<1>9. scr = ShorterScreen(u.screen, k, m)
  BY DEF ShorterScreen
<1> HIDE DEF scr, sb, j, y
<1>10. /\ v \in Refitted(n, m) /\ v.alt_which = u.alt_which
       /\ v.screen = scr /\ v.scrollback = sb /\ v.tempsblines = j /\ v.cursy = y
  <2> DEFINE r == Refit(u, m, scr, sb, j, y)
  <2>1. /\ r \in Refitted(n, m) /\ r.alt_which = u.alt_which
        /\ r.screen = scr /\ r.scrollback = sb /\ r.tempsblines = j /\ r.cursy = y
    <3>1. Fitting(n, u, m, scr, sb, j, y)
      BY <1>1, <1>4, <1>6, <1>7 DEF Fitting
    <3> QED BY <3>1, RefitFacts
  <2> QED BY <1>8, <2>1
<1>11. IsPushed(sb, u.scrollback, u.screen, k, 0)
  <2>1. ASSUME NEW i \in 1 .. l + k PROVE i + 0 = i
    OBVIOUS
  <2>2. l + k - 0 = l + k
    BY <1>1, <1>2
  <2> QED BY <1>6, <2>1, <2>2 DEF IsPushed, l
<1> QED BY <1>1, <1>2, <1>6, <1>9, <1>10, <1>11 DEF v, k, l, j, y

(* What is left for term_size() to do: margins and cursors that fit the new
   screens, an alternate screen of the new height, the oldest lines dropped. *)
Settled(v, m) ==
    [v EXCEPT !.marg_t = 0, !.alt_t = 0, !.marg_b = m - 1, !.alt_b = m - 1,
              !.scrollback = Newest(v.scrollback, SaveLines),
              !.tempsblines = Lesser(@, Len(Newest(v.scrollback, SaveLines))),
              !.disptop = 0,
              !.alt_screen = NewAltScreen(v, m),
              !.alt_sblines = 0,
              !.cursy = Lesser(Greater(@, 0), m - 1),
              !.alt_y = 0]
LEMMA SettledFacts ==
    ASSUME cfg \in Configs, NEW n \in Nat, NEW m \in Nat, m >= 1, NEW v \in Refitted(n, m)
    PROVE  LET w == Settled(v, m)
               s == Newest(v.scrollback, SaveLines)
           IN  /\ Stored(w, m) /\ w.alt_which = v.alt_which /\ w.disptop = 0
               /\ w.screen = v.screen /\ w.alt_screen = BlankScreen(m)
               /\ w.scrollback = s /\ w.tempsblines = Lesser(v.tempsblines, Len(s))
               /\ w.cursy = Lesser(Greater(v.cursy, 0), m - 1)
<1> DEFINE w == Settled(v, m)
           s == Newest(v.scrollback, SaveLines)
           k == Lesser(v.tempsblines, Len(s))
           alt == BlankScreen(m)
           y == Lesser(Greater(v.cursy, 0), m - 1)
<1>1. /\ s \in Seq(Line) /\ Len(s) \in Nat /\ Len(s) <= SaveLines
  <2>1. v.scrollback \in Seq(Line) /\ SaveLines \in Nat
    BY CfgFacts DEF Refitted
  <2>2. s \in Seq(Line) /\ Len(s) = Lesser(Len(v.scrollback), SaveLines)
    BY <2>1, NewestFacts
  <2>3. Len(v.scrollback) \in Nat
    BY <2>1, LenProperties
  <2> QED BY <2>1, <2>2, <2>3 DEF Lesser
<1>2. k \in Nat /\ k <= Len(s)
  BY <1>1 DEF Lesser, Refitted
<1>3. alt \in [0 .. m-1 -> Line]
  BY CfgFacts DEF BlankScreen
<1>4. y \in 0 .. m-1
  <2>1. v.cursy \in Int
    BY DEF Refitted
  <2> HIDE DEF s, k, alt, w
  <2> QED BY <2>1 DEF Lesser, Greater
<1>5. PICK z \in 0 .. m-1, b \in 0 .. m-1, d \in Int, a \in 0 .. m :
          z = 0 /\ b = m - 1 /\ d = 0 /\ a = 0
  OBVIOUS
<1>6. w = [v EXCEPT !.marg_t = z, !.alt_t = z, !.marg_b = b, !.alt_b = b,
                    !.scrollback = s, !.tempsblines = k, !.disptop = d,
                    !.alt_screen = alt, !.alt_sblines = a, !.cursy = y, !.alt_y = z]
  BY <1>5 DEF Settled, NewAltScreen
<1> HIDE DEF w, s, k, alt, y
<1>7. /\ w \in Terminals(m) /\ w.alt_which = v.alt_which /\ w.disptop = d
      /\ w.screen = v.screen /\ w.alt_screen = alt
      /\ w.scrollback = s /\ w.tempsblines = k /\ w.cursy = y /\ w.rows = m
      /\ w.marg_t = z /\ w.alt_t = z /\ w.marg_b = b /\ w.alt_b = b
  BY <1>1, <1>2, <1>3, <1>4, <1>6 DEF Refitted, Terminals
<1>8. Stored(w, m)
  BY <1>1, <1>2, <1>5, <1>7 DEF Stored, RegionOK, Rows
<1> QED BY <1>5, <1>7, <1>8 DEF w, s, k, alt, y
(* What becomes of the primary screen, the scrollback and the cursor when the
   window is given m rows instead of n: m is more, and k lines come back ... *)
IsTaller(u, t, k, n, m) ==
    /\ k <= t.tempsblines /\ k <= m - n /\ k <= Len(t.scrollback)
    /\ k = m - n \/ k = t.tempsblines
    /\ MainScreen(u) = TallerScreen(MainScreen(t), t.scrollback, k, n, m)
    /\ IsOldest(u.scrollback, t.scrollback, Len(t.scrollback) - k)
    /\ u.tempsblines = t.tempsblines - k
    /\ MainCursor(u) = MainCursor(t) + k
(* ... or it is fewer, and k rows are pushed off the top. *)
Primary(t) == Shown(deselect(t), 0)
IsShorter(u, t, k, n, m) ==
    LET l == Len(t.scrollback)
    IN  /\ k = Pushed(Primary(t), n - m) /\ k <= n - m
        /\ MainScreen(u) = ShorterScreen(MainScreen(t), k, m)
        /\ Len(u.scrollback) = Lesser(l + k, SaveLines)
        /\ IsPushed(u.scrollback, t.scrollback, MainScreen(t), k,
                    (l + k) - Len(u.scrollback))
        /\ u.tempsblines = Lesser(t.tempsblines + k, Len(u.scrollback))
        /\ MainCursor(u) = MainCursor(t) - k
        /\ MainCursor(u) \in 0 .. m-1

(* term_size() does that to the primary screen, and makes the alternate one anew. *)
LEMMA ResizedFacts ==
    ASSUME cfg \in Configs, NEW n \in Nat, NEW t, Stored(t, n), NEW m \in Nat, m >= 1
    PROVE  LET u == Resized(t, m)
           IN  /\ Stored(u, m) /\ u.alt_which = t.alt_which /\ u.disptop = 0
               /\ AltScreen(u) = BlankScreen(m)
               /\ m >= n => \E k \in Nat : IsTaller(u, t, k, n, m)
               /\ m < n => \E k \in Nat : IsShorter(u, t, k, n, m)
<1> DEFINE d == deselect(t)
           p == Primary(t)
           v == IF m >= p.rows THEN Grown(p, m) ELSE Shrunk(p, m)
           w == Settled(v, m)
           u == Resized(t, m)
           l == Len(t.scrollback)
<1>1. u = Shown(w, t.alt_which)
  BY DEF Resized, Settled, Shown, Primary
<1>2. Stored(d, n) /\ SameLines(d, t)
  BY DeselectFacts
<1>3. PICK z \in {0, 1} : z = 0
  OBVIOUS
<1>4. p = Shown(d, z)
  BY <1>3 DEF Primary
<1> HIDE DEF d, u, p
<1>5. /\ Stored(p, n) /\ p.alt_which = 0
      /\ p.scrollback = t.scrollback /\ p.tempsblines = t.tempsblines
      /\ p.screen = MainScreen(t) /\ p.cursy = MainCursor(t)
  <2> DEFINE q == Shown(d, z)
  <2>1. /\ Stored(q, n) /\ q.alt_which = z
        /\ q.scrollback = d.scrollback /\ q.tempsblines = d.tempsblines
        /\ MainScreen(q) = MainScreen(d) /\ MainCursor(q) = MainCursor(d)
    BY <1>2, ShownFacts
  <2> HIDE DEF q
  <2>2. /\ MainScreen(d) = MainScreen(t) /\ MainCursor(d) = MainCursor(t)
        /\ d.scrollback = t.scrollback /\ d.tempsblines = t.tempsblines
    BY <1>2 DEF SameLines, MainScreen, MainCursor
  <2>3. MainScreen(q) = q.screen /\ MainCursor(q) = q.cursy
    BY <1>3, <2>1 DEF MainScreen, MainCursor
  <2> QED BY <1>3, <1>4, <2>1, <2>2, <2>3 DEF q
<1>6. p.rows = n /\ t.alt_which \in {0, 1} /\ l \in Nat /\ l <= SaveLines
  BY <1>5, LenProperties DEF Stored, Terminals
<1>7. ASSUME v \in Refitted(n, m), v.alt_which = 0
      PROVE  /\ Stored(u, m) /\ u.alt_which = t.alt_which /\ u.disptop = 0
             /\ AltScreen(u) = BlankScreen(m)
             /\ MainScreen(u) = v.screen
             /\ u.scrollback = Newest(v.scrollback, SaveLines)
             /\ u.tempsblines = Lesser(v.tempsblines, Len(u.scrollback))
             /\ MainCursor(u) = Lesser(Greater(v.cursy, 0), m - 1)
  <2> HIDE DEF v
  <2>1. /\ Stored(w, m) /\ w.alt_which = v.alt_which /\ w.disptop = 0
        /\ w.screen = v.screen /\ w.alt_screen = BlankScreen(m)
        /\ w.scrollback = Newest(v.scrollback, SaveLines)
        /\ w.tempsblines = Lesser(v.tempsblines, Len(Newest(v.scrollback, SaveLines)))
        /\ w.cursy = Lesser(Greater(v.cursy, 0), m - 1)
    BY <1>7, SettledFacts
  <2> HIDE DEF w
  <2>2. MainScreen(w) = w.screen /\ AltScreen(w) = w.alt_screen /\ MainCursor(w) = w.cursy
    BY <1>7, <2>1 DEF MainScreen, AltScreen, MainCursor
  <2>3. PICK which \in {0, 1} : which = t.alt_which
    BY <1>6
  <2> DEFINE x == Shown(w, which)
  <2>4. /\ Stored(x, m) /\ x.alt_which = which
        /\ x.scrollback = w.scrollback /\ x.tempsblines = w.tempsblines
        /\ MainScreen(x) = MainScreen(w) /\ AltScreen(x) = AltScreen(w)
        /\ MainCursor(x) = MainCursor(w) /\ x.disptop = w.disptop
    BY <2>1, ShownFacts
  <2>5. u = x
    BY <1>1, <2>3
  <2> HIDE DEF x
  <2> QED BY <2>1, <2>2, <2>3, <2>4, <2>5
<1>8. MainCursor(t) \in 0 .. n-1
  BY DEF Stored, Terminals, MainCursor
<1>9. CASE m >= n
  <2> DEFINE k == Returned(p, m - n)
             g == Grown(p, m)
  <2>1. /\ g \in Refitted(n, m) /\ g.alt_which = p.alt_which
        /\ k \in Nat /\ k <= p.tempsblines /\ k <= m - n
        /\ (k = m - n \/ k = p.tempsblines) /\ k <= Len(p.scrollback)
        /\ g.screen = TallerScreen(p.screen, p.scrollback, k, n, m)
        /\ IsOldest(g.scrollback, p.scrollback, Len(p.scrollback) - k)
        /\ g.tempsblines = p.tempsblines - k
        /\ g.cursy = p.cursy + k
    BY <1>5, <1>9, GrownFacts
  <2>2. v = g
    BY <1>6, <1>9
  <2> HIDE DEF k, g, v
  <2>3. Len(g.scrollback) = l - k /\ Newest(g.scrollback, SaveLines) = g.scrollback
    BY <1>5, <1>6, <2>1, CfgFacts DEF Newest, IsOldest
  <2>4. /\ Stored(u, m) /\ u.alt_which = t.alt_which /\ u.disptop = 0
        /\ AltScreen(u) = BlankScreen(m)
        /\ MainScreen(u) = g.screen
        /\ u.scrollback = g.scrollback
        /\ u.tempsblines = Lesser(g.tempsblines, Len(g.scrollback))
        /\ MainCursor(u) = Lesser(Greater(g.cursy, 0), m - 1)
    BY <1>5, <1>7, <2>1, <2>2, <2>3
  <2>5. t.tempsblines \in Nat /\ t.tempsblines <= l
    BY DEF Stored, Terminals
  <2>6. u.tempsblines = t.tempsblines - k
    BY <1>5, <1>6, <2>1, <2>3, <2>4, <2>5 DEF Lesser
  <2>7. MainCursor(u) = MainCursor(t) + k
    BY <1>5, <1>8, <1>9, <2>1, <2>4 DEF Lesser, Greater
  <2>8. /\ k <= t.tempsblines /\ k <= m - n /\ k <= l
        /\ k = m - n \/ k = t.tempsblines
        /\ MainScreen(u) = TallerScreen(MainScreen(t), t.scrollback, k, n, m)
        /\ IsOldest(u.scrollback, t.scrollback, l - k)
    BY <1>5, <2>1, <2>4
  <2> HIDE DEF l
  <2>9. k \in Nat /\ ~(m < n)
    BY <1>9, <2>1
  <2>10. IsTaller(u, t, k, n, m)
    BY <2>6, <2>7, <2>8 DEF IsTaller, l
  <2> QED BY <2>4, <2>9, <2>10 DEF u
<1>10. CASE m < n
  <2> DEFINE k == Pushed(p, n - m)
             g == Shrunk(p, m)
             c == Len(p.scrollback)
  <2>1. /\ g \in Refitted(n, m) /\ g.alt_which = p.alt_which
        /\ k \in Nat /\ k <= n - m
        /\ m >= 1 => p.cursy - k \in 0 .. m-1
        /\ g.screen = ShorterScreen(p.screen, k, m)
        /\ Len(g.scrollback) = c + k
        /\ IsPushed(g.scrollback, p.scrollback, p.screen, k, 0)
        /\ g.tempsblines = p.tempsblines + k
        /\ g.cursy = p.cursy - k
    BY <1>5, <1>10, ShrunkFacts
  <2>2. v = g
    BY <1>6, <1>10
  <2>3. k = Pushed(Primary(t), n - m)
    BY DEF p
  <2> HIDE DEF k, g, v
  <2>4. /\ Stored(u, m) /\ u.alt_which = t.alt_which /\ u.disptop = 0
        /\ AltScreen(u) = BlankScreen(m)
        /\ MainScreen(u) = g.screen
        /\ u.scrollback = Newest(g.scrollback, SaveLines)
        /\ u.tempsblines = Lesser(g.tempsblines, Len(u.scrollback))
        /\ MainCursor(u) = Lesser(Greater(g.cursy, 0), m - 1)
    BY <1>5, <1>7, <2>1, <2>2
  <2>5. /\ Len(u.scrollback) = Lesser(c + k, SaveLines)
        /\ \A i \in 1 .. Len(u.scrollback) :
              u.scrollback[i] = g.scrollback[i + (c + k) - Len(u.scrollback)]
    <3> DEFINE s == g.scrollback
               r == Newest(s, SaveLines)
    <3>1. s \in Seq(Line) /\ SaveLines \in Nat /\ Len(s) = c + k
      BY <2>1, CfgFacts DEF Refitted
    <3> HIDE DEF s
    <3>2. /\ Len(r) = Lesser(Len(s), SaveLines)
          /\ \A i \in 1 .. Len(r) : r[i] = s[i + Len(s) - Len(r)]
      BY <3>1, NewestFacts
    <3>3. u.scrollback = r
      BY <2>4 DEF s
    <3> HIDE DEF r
    <3> QED BY <3>1, <3>2, <3>3 DEF s
  <2>6. c = l /\ p.scrollback = t.scrollback /\ p.screen = MainScreen(t)
    BY <1>5
  <2> HIDE DEF l, c
  <2>7. MainCursor(u) = MainCursor(t) - k /\ MainCursor(u) \in 0 .. m-1
    BY <1>5, <1>8, <1>10, <2>1, <2>4 DEF Lesser, Greater
  <2>8. /\ MainScreen(u) = ShorterScreen(MainScreen(t), k, m)
        /\ u.tempsblines = Lesser(t.tempsblines + k, Len(u.scrollback))
    BY <1>5, <2>1, <2>4
  <2>9. Len(u.scrollback) \in Nat /\ Len(u.scrollback) <= l + k
    <3>1. l + k \in Nat /\ SaveLines \in Nat /\ Len(u.scrollback) = Lesser(l + k, SaveLines)
      BY <1>6, <2>1, <2>5, <2>6, CfgFacts
    <3> QED BY <3>1 DEF Lesser
  <2>10. ASSUME NEW i \in 1 .. Len(u.scrollback)
         PROVE  LET j == i + ((l + k) - Len(u.scrollback))
                IN  u.scrollback[i] = IF j <= l THEN t.scrollback[j]
                                      ELSE MainScreen(t)[j - l - 1]
    <3> DEFINE j == i + ((l + k) - Len(u.scrollback))
    <3>1. /\ j \in 1 .. l + k /\ j + 0 = j
          /\ j = i + (l + k) - Len(u.scrollback)
      BY <1>6, <2>1, <2>9
    <3>2. u.scrollback[i] = g.scrollback[j]
      BY <2>5, <2>6, <3>1
    <3> HIDE DEF j
    <3>3. \A h \in 1 .. l + k : g.scrollback[h] =
             IF h + 0 <= l THEN t.scrollback[h + 0] ELSE MainScreen(t)[(h + 0) - l - 1]
      BY <2>1, <2>6 DEF IsPushed, c
    <3>4. g.scrollback[j] = IF j <= l THEN t.scrollback[j] ELSE MainScreen(t)[j - l - 1]
      BY <3>1, <3>3
    <3> QED BY <3>2, <3>4 DEF j
  <2>11. k \in Nat /\ k <= n - m /\ ~(m >= n) /\ Len(u.scrollback) = Lesser(l + k, SaveLines)
    BY <1>10, <2>1, <2>5, <2>6
  <2>12. IsPushed(u.scrollback, t.scrollback, MainScreen(t), k, (l + k) - Len(u.scrollback))
    <3>1. Len(u.scrollback) = (l + k) - ((l + k) - Len(u.scrollback))
      BY <1>6, <2>1, <2>9
    <3> QED BY <2>10, <3>1 DEF IsPushed, l
  <2>13. IsShorter(u, t, k, n, m)
    BY <2>3, <2>7, <2>8, <2>11, <2>12 DEF IsShorter, l
  <2> QED BY <2>4, <2>11, <2>13 DEF u
<1>11. m >= n \/ m < n
  OBVIOUS
<1> QED BY <1>9, <1>10, <1>11

-----------------------------------------------------------------------------
(* The handlers. *)

(* What one handler makes of the terminal t, whichever it is. *)
Handled(u, t) ==
    /\ u.rows \in Heights /\ Stored(u, u.rows) /\ Viewed(u)
    /\ t.alt_which = 1 /\ u.alt_which = 1 /\ u.rows = t.rows =>
          u.alt_screen = t.alt_screen /\ u.scrollback \in {t.scrollback, <<>>}

(* Output to the screen that shows. *)
LEMMA OutputHandled ==
    ASSUME NEW n \in Heights, NEW t, Stored(t, n), Viewed(t), NEW u, IsOutput(u, t, n)
    PROVE  Handled(u, t)
<1>1. t.rows = n
  BY DEF Stored, Terminals
<1> QED BY <1>1 DEF IsOutput, Handled

(* A handler of the mouse or of the clipboard touches only the selection. *)
LEMMA SelectionHandled ==
    ASSUME cfg \in Configs, NEW n \in Heights, NEW t, Stored(t, n), Viewed(t),
           NEW u, Stored(u, n), SameLines(u, t)
    PROVE  Handled(u, t)
<1>1. n \in Nat
  BY CfgFacts
<1> QED BY <1>1, SelectionOutput, OutputHandled

(* The display returns to the bottom of the buffer. *)
AtBottom(t) == [t EXCEPT !.disptop = 0]
LEMMA AtBottomFacts ==
    ASSUME NEW n \in Nat, NEW t, Stored(t, n)
    PROVE  LET u == AtBottom(t)
           IN  /\ Stored(u, n) /\ Viewed(u) /\ SameFrame(u, t) /\ u.screen = t.screen
               /\ u.scrollback = t.scrollback /\ u.tempsblines = t.tempsblines
               /\ u.disptop = 0
<1> DEFINE u == AtBottom(t)
<1>1. PICK d \in Int : d = 0
  OBVIOUS
<1>2. u = [t EXCEPT !.disptop = d]
  BY <1>1 DEF AtBottom
<1>3. t \in Terminals(n)
  BY DEF Stored
<1>4. Stored([t EXCEPT !.disptop = d], n)
  BY ViewStored
<1> HIDE DEF u
<1>5. /\ u.disptop = d /\ SameFrame(u, t) /\ u.screen = t.screen
      /\ u.scrollback = t.scrollback /\ u.tempsblines = t.tempsblines
  BY <1>2, <1>3 DEF Terminals, SameFrame
<1>6. Stored(u, n) /\ Viewed(u)
  BY <1>1, <1>2, <1>4, <1>5, BottomViewed
<1> QED BY <1>1, <1>5, <1>6 DEF u

(* A handler that ends there need not have kept the view in order before. *)
LEMMA BottomHandled ==
    ASSUME cfg \in Configs, NEW n \in Heights, NEW t, Stored(t, n), NEW v, Stored(v, n),
           t.alt_which = 1 /\ v.alt_which = 1 =>
              v.alt_screen = t.alt_screen /\ v.scrollback \in {t.scrollback, <<>>}
    PROVE  Handled(AtBottom(v), t)
<1> DEFINE u == AtBottom(v)
<1>1. n \in Nat
  BY CfgFacts
<1>2. /\ Stored(u, n) /\ Viewed(u) /\ SameFrame(u, v) /\ u.scrollback = v.scrollback
  BY <1>1, AtBottomFacts
<1> HIDE DEF u
<1>3. u.rows = n
  BY <1>2 DEF Stored, Terminals
<1> QED BY <1>2, <1>3 DEF Handled, SameFrame, u

(* A change of size; the same size again leaves the primary screen as it was. *)
LEMMA ResizedHandled ==
    ASSUME cfg \in Configs, NEW n \in Heights, NEW t, Stored(t, n), NEW m \in Heights
    PROVE  Handled(Resized(t, m), t)
<1> DEFINE u == Resized(t, m)
           l == Len(t.scrollback)
<1>1. n \in Nat /\ m \in Nat /\ n >= 1 /\ m >= 1
  BY CfgFacts
<1>2. /\ Stored(u, m) /\ u.alt_which = t.alt_which /\ u.disptop = 0
      /\ m >= n => \E k \in Nat : IsTaller(u, t, k, n, m)
  BY <1>1, ResizedFacts
<1> HIDE DEF u
<1>3. /\ t.rows = n /\ t.scrollback \in Seq(Line) /\ l \in Nat
      /\ t.screen \in [0 .. n-1 -> Line] /\ t.alt_screen \in [0 .. n-1 -> Line]
      /\ u.rows = m /\ u.scrollback \in Seq(Line)
  BY <1>2, LenProperties DEF Stored, Terminals
<1>4. Viewed(u)
  BY <1>1, <1>2, BottomViewed
<1>5. ASSUME t.alt_which = 1, m = n
      PROVE  u.alt_screen = t.alt_screen /\ u.scrollback = t.scrollback
  <2>1. PICK k \in Nat :
            /\ k <= m - n /\ k <= l
            /\ MainScreen(u) = TallerScreen(MainScreen(t), t.scrollback, k, n, m)
            /\ IsOldest(u.scrollback, t.scrollback, l - k)
    BY <1>1, <1>2, <1>5 DEF IsTaller
  <2>2. k = 0 /\ l - k = l
    BY <1>1, <1>3, <1>5, <2>1
  <2>3. MainScreen(u) = u.alt_screen /\ MainScreen(t) = t.alt_screen
    BY <1>2, <1>5 DEF MainScreen
  <2>4. ASSUME NEW i \in 0 .. n-1
        PROVE  (IF i < k THEN t.scrollback[Len(t.scrollback) - k + 1 + i]
                ELSE IF i < k + n THEN t.alt_screen[i - k]
                ELSE BlankLine) = t.alt_screen[i]
    BY <1>1, <2>2
  <2>5. u.alt_screen = [i \in 0 .. n-1 |-> t.alt_screen[i]]
    BY <1>5, <2>1, <2>3, <2>4 DEF TallerScreen
  <2>6. u.alt_screen = t.alt_screen
    BY <1>3, <2>5
  <2>7. Len(u.scrollback) = l /\ \A i \in 1 .. l : u.scrollback[i] = t.scrollback[i]
    BY <2>1, <2>2 DEF IsOldest
  <2>8. u.scrollback = t.scrollback
    BY <1>3, <2>7, SeqEqual
  <2> QED BY <2>6, <2>8
<1> QED BY <1>2, <1>3, <1>4, <1>5 DEF Handled, u
(* The actions that print, move the cursor, and scroll. *)
LEMMA PrintingHandled ==
    ASSUME IInv,
           MoveRow \/ LineFeed \/ ReverseIndex \/ GraphicChar
              \/ ScrollRegion \/ InsertLines \/ DeleteLines
    PROVE  Handled(term', term) /\ cfg' = cfg /\ erased' = erased
<1> DEFINE n == term.rows
<1>1. /\ cfg \in Configs /\ n \in Heights /\ n \in Nat /\ n >= 1
      /\ Stored(term, n) /\ Viewed(term) /\ erased \subseteq Text
  BY CfgFacts DEF IInv
<1>2. /\ term.cursy \in 0 .. n-1 /\ term.marg_t \in 0 .. n-1 /\ term.marg_b \in 0 .. n-1
      /\ term.alt_which \in {0, 1}
  BY <1>1 DEF Stored, Terminals
<1> HIDE DEF n
<1>3. \A x \in WritableText(term) : x \in Labels
  BY <1>1, CfgFacts DEF WritableText
<1>4. cfg' = cfg /\ erased' = erased
  BY DEF MoveRow, LineFeed, ReverseIndex, GraphicChar, ScrollRegion, InsertLines,
         DeleteLines
<1> SUFFICES IsOutput(term', term, n)
  BY <1>1, <1>4, OutputHandled
<1>5. CASE MoveRow
  <2>1. PICK y \in 0 .. n-1 : term' = [term EXCEPT !.cursy = y]
    BY <1>5 DEF MoveRow, Output, n
  <2> QED BY <1>1, <2>1, CursorOutput
<1>6. CASE LineFeed
  BY <1>1, <1>6, LineFeedOutput DEF LineFeed, Output
<1>7. CASE ReverseIndex
  <2>1. PICK top \in Nat, bot \in 0 .. n-1 : term' = ReverseIndexOf(term, top, bot)
    <3>1. term.marg_t \in Nat /\ 0 \in Nat /\ n - 1 \in 0 .. n-1
      BY <1>1, <1>2
    <3> QED BY <1>2, <1>7, <3>1 DEF ReverseIndex, Output, n
  <2> QED BY <1>1, <2>1, ReverseIndexOutput
<1>8. CASE GraphicChar
  <2>1. PICK x \in WritableText(term), shared \in Sharing :
           \/ term' = PutOf(term, x, shared)
           \/ term' = PutOf(WrapOf(term), x, shared)
           \/ term' = WrapOf(PutOf(term, x, shared))
           \/ term' = WrapOf(PutOf(WrapOf(term), x, shared))
    BY <1>8 DEF GraphicChar, Output
  <2>2. x \in Labels
    BY <1>3
  <2> DEFINE w == WrapOf(term)
             p == PutOf(term, x, shared)
             wp == PutOf(w, x, shared)
  <2>3. IsOutput(w, term, n) /\ Stored(w, n)
    BY <1>1, WrapOutput DEF IsOutput
  <2>4. IsOutput(p, term, n) /\ Stored(p, n)
    BY <1>1, <2>2, PutOutput DEF IsOutput
  <2>5. IsOutput(wp, term, n) /\ Stored(wp, n)
    <3> HIDE DEF w
    <3>1. IsOutput(wp, w, n)
      BY <1>1, <2>2, <2>3, PutOutput
    <3> QED BY <2>3, <3>1, OutputComposes DEF IsOutput
  <2>6. IsOutput(WrapOf(p), term, n)
    <3> HIDE DEF p
    <3>1. IsOutput(WrapOf(p), p, n)
      BY <1>1, <2>4, WrapOutput
    <3> QED BY <2>4, <3>1, OutputComposes
  <2>7. IsOutput(WrapOf(wp), term, n)
    <3> HIDE DEF wp
    <3>1. IsOutput(WrapOf(wp), wp, n)
      BY <1>1, <2>5, WrapOutput
    <3> QED BY <2>5, <3>1, OutputComposes
  <2> QED BY <2>1, <2>4, <2>5, <2>6, <2>7
<1>9. CASE ScrollRegion
  <2>0. PICK k \in (-MaxCount .. MaxCount) \ {0} :
           term' = scroll(term, term.marg_t, term.marg_b, k, TRUE)
    BY <1>9 DEF ScrollRegion, Output
  <2>1. k \in Int
    BY <1>1, CfgFacts
  <2>2. PICK top \in Nat, bot \in 0 .. n-1 : top = term.marg_t /\ bot = term.marg_b
    BY <1>2
  <2>3. IsOutput(scroll(term, top, bot, k, TRUE), term, n)
    BY <1>1, <2>1, ScrollOutput
  <2> QED BY <2>0, <2>2, <2>3
<1>10. CASE InsertLines
  <2>1. PICK j \in 1 .. MaxCount : term' = scroll(term, term.cursy, term.marg_b, -j, FALSE)
    BY <1>10 DEF InsertLines, Output
  <2>2. PICK top \in Nat, bot \in 0 .. n-1, k \in Int :
           top = term.cursy /\ bot = term.marg_b /\ k = -j
    BY <1>1, <1>2, CfgFacts
  <2>3. IsOutput(scroll(term, top, bot, k, FALSE), term, n)
    BY <1>1, ScrollOutput
  <2> QED BY <2>1, <2>2, <2>3
<1>11. CASE DeleteLines
  <2>1. PICK j \in 1 .. MaxCount : term' = scroll(term, term.cursy, term.marg_b, j, TRUE)
    BY <1>11 DEF DeleteLines, Output
  <2>2. PICK top \in Nat, bot \in 0 .. n-1, k \in Int :
           top = term.cursy /\ bot = term.marg_b /\ k = j
    BY <1>1, <1>2, CfgFacts
  <2>3. IsOutput(scroll(term, top, bot, k, TRUE), term, n)
    BY <1>1, ScrollOutput
  <2> QED BY <2>1, <2>2, <2>3
<1> QED BY <1>5, <1>6, <1>7, <1>8, <1>9, <1>10, <1>11

(* The actions that erase. *)
LEMMA ErasingHandled ==
    ASSUME IInv, EraseDisplay \/ EraseFromHome \/ EraseSavedLines \/ EraseInLine
    PROVE  Handled(term', term)
<1> DEFINE n == term.rows
<1>1. /\ cfg \in Configs /\ n \in Heights /\ n \in Nat /\ n >= 1
      /\ Stored(term, n) /\ Viewed(term)
  BY CfgFacts DEF IInv
<1> HIDE DEF n
<1>2. CASE EraseDisplay
  <2>1. PICK from_begin, to_end, home, kept, shared :
            term' = AtBottom(EraseScreen(term, from_begin, to_end, home, kept, shared))
    BY <1>2 DEF EraseDisplay, Output, AtBottom
  <2> DEFINE v == EraseScreen(term, from_begin, to_end, home, kept, shared)
  <2>2. /\ Stored(v, n) /\ SameFrame(v, term)
        /\ term.alt_which = 1 => v.scrollback = term.scrollback
    BY <1>1, EraseScreenFacts
  <2> HIDE DEF v
  <2>3. Handled(AtBottom(v), term)
    BY <1>1, <2>2, BottomHandled DEF SameFrame
  <2> QED BY <2>1, <2>3 DEF v
<1>3. CASE EraseFromHome
  <2>0. PICK z \in 0 .. n-1 : z = 0
    BY <1>1
  <2>1. PICK yes \in BOOLEAN, no \in BOOLEAN : yes = TRUE /\ no = FALSE
    OBVIOUS
  <2> DEFINE h == [term EXCEPT !.cursy = z]
  <2>2. PICK shared : term' = AtBottom(EraseScreen(h, no, yes, yes, no, shared))
    BY <1>3, <2>0, <2>1 DEF EraseFromHome, Output, AtBottom
  <2>3. /\ Stored(h, n) /\ h.alt_which = term.alt_which
        /\ h.alt_screen = term.alt_screen /\ h.scrollback = term.scrollback
    BY <1>1, WithCursorFacts
  <2> HIDE DEF h
  <2> DEFINE v == EraseScreen(h, no, yes, yes, no, shared)
  <2>4. /\ Stored(v, n) /\ SameFrame(v, h)
        /\ h.alt_which = 1 => v.scrollback = h.scrollback
    BY <1>1, <2>3, EraseScreenFacts
  <2> HIDE DEF v
  <2>5. Handled(AtBottom(v), term)
    BY <1>1, <2>3, <2>4, BottomHandled DEF SameFrame
  <2> QED BY <2>2, <2>5 DEF v
<1>4. CASE EraseSavedLines
  <2> DEFINE v == term_clrsb(term)
  <2>1. /\ Stored(v, n) /\ v.disptop = 0 /\ v.rows = term.rows
        /\ v.alt_screen = term.alt_screen /\ v.scrollback = <<>>
    BY <1>1, ClearFacts
  <2>2. term' = v
    BY <1>4 DEF EraseSavedLines, Output
  <2> HIDE DEF v
  <2> QED BY <1>1, <2>1, <2>2, BottomViewed DEF Handled, n
<1>5. CASE EraseInLine
  <2>1. PICK from_begin, to_end, kept, shared :
            term' = EraseLine(term, from_begin, to_end, kept, shared)
    BY <1>5 DEF EraseInLine, Output
  <2> DEFINE v == EraseLine(term, from_begin, to_end, kept, shared)
  <2>2. /\ Stored(v, n) /\ SameFrame(v, term)
        /\ v.scrollback = term.scrollback /\ v.disptop = term.disptop
    BY <1>1, EraseLineFacts
  <2> HIDE DEF v
  <2>3. Viewed(v)
    BY <1>1, <2>2, FrameViewed
  <2> QED BY <1>1, <2>1, <2>2, <2>3 DEF Handled, SameFrame, v, n
<1> QED BY <1>2, <1>3, <1>4, <1>5
(* Full margins on both screens and the cursor at the top. *)
FullMargins(u) ==
    [u EXCEPT !.marg_t = 0, !.alt_t = 0, !.marg_b = u.rows - 1, !.alt_b = u.rows - 1,
              !.cursy = 0]
LEMMA FullMarginsFacts ==
    ASSUME NEW n \in Nat, n >= 1, NEW t, Stored(t, n)
    PROVE  LET u == FullMargins(t)
           IN  /\ Stored(u, n) /\ u.alt_which = t.alt_which /\ u.rows = t.rows
               /\ u.screen = t.screen /\ u.alt_screen = t.alt_screen
               /\ u.scrollback = t.scrollback /\ u.tempsblines = t.tempsblines
               /\ Viewed(t) => Viewed(u)
<1> DEFINE u == FullMargins(t)
<1>1. PICK b \in 0 .. n-1, z \in 0 .. n-1 : b = n - 1 /\ z = 0
  OBVIOUS
<1>2. t.rows = n /\ t \in Terminals(n)
  BY DEF Stored, Terminals
<1>3. u = [t EXCEPT !.marg_t = z, !.alt_t = z, !.marg_b = b, !.alt_b = b, !.cursy = z]
  BY <1>1, <1>2 DEF FullMargins
<1> HIDE DEF u
<1>4. /\ u.alt_which = t.alt_which
      /\ u.screen = t.screen /\ u.alt_screen = t.alt_screen
      /\ u.scrollback = t.scrollback /\ u.tempsblines = t.tempsblines
      /\ u.disptop = t.disptop /\ u.alt_sblines = t.alt_sblines
      /\ u.rows = t.rows /\ u.marg_t = z /\ u.marg_b = b /\ u.alt_t = z /\ u.alt_b = b
  BY <1>2, <1>3 DEF Terminals
<1>5. u \in Terminals(n)
  BY <1>2, <1>3 DEF Terminals
<1>6. Stored(u, n)
  BY <1>1, <1>2, <1>4, <1>5 DEF Stored, RegionOK, Rows
<1>7. Viewed(t) => Viewed(u)
  BY <1>4 DEF Viewed, sblines, altlines
<1> QED BY <1>4, <1>6, <1>7 DEF u

(* DECSTBM accepts a region only if it lies on the screen and has two rows. *)
LEMMA SetMarginsHandled ==
    ASSUME IInv, SetMargins
    PROVE  Handled(term', term)
<1> DEFINE n == term.rows
<1>1. /\ cfg \in Configs /\ n \in Heights /\ n \in Nat /\ n >= 1
      /\ Stored(term, n) /\ Viewed(term)
  BY CfgFacts DEF IInv
<1> HIDE DEF n
<1>2. PICK region \in Regions :
        LET top == region[1]
            bot == Lesser(region[2], n - 1)
        IN  /\ bot > top
            /\ \E y \in {0, top} :
                  term' = [term EXCEPT !.marg_t = top, !.marg_b = bot, !.cursy = y]
  BY DEF SetMargins, RegionAccepted, Output, n
<1> DEFINE top == region[1]
           bot == Lesser(region[2], n - 1)
<1>3. top \in Nat /\ region[2] \in Nat
  BY <1>1, CfgFacts
<1> HIDE DEF top
<1>4. PICK y \in {0, top} : term' = [term EXCEPT !.marg_t = top, !.marg_b = bot, !.cursy = y]
  BY <1>2 DEF top
<1>5. /\ bot \in Int /\ bot <= n - 1 /\ top < bot
  BY <1>1, <1>2, <1>3 DEF Lesser, top
<1> HIDE DEF bot
<1>6. top \in 0 .. n-1 /\ bot \in 0 .. n-1 /\ y \in 0 .. n-1
  BY <1>1, <1>3, <1>5
<1>7. /\ term' \in Terminals(n) /\ term'.rows = n /\ term'.alt_which = term.alt_which
      /\ term'.scrollback = term.scrollback /\ term'.alt_screen = term.alt_screen
      /\ term'.tempsblines = term.tempsblines
      /\ term'.disptop = term.disptop /\ term'.alt_sblines = term.alt_sblines
      /\ term'.marg_t = top /\ term'.marg_b = bot
      /\ term'.alt_t = term.alt_t /\ term'.alt_b = term.alt_b
  <2>1. term \in Terminals(n)
    BY <1>1 DEF Stored
  <2> QED BY <1>4, <1>6, <2>1 DEF Terminals
<1>8. Stored(term', n)
  BY <1>1, <1>5, <1>6, <1>7 DEF Stored, RegionOK, Rows, n
<1>9. Viewed(term')
  BY <1>1, <1>7 DEF Viewed, sblines, altlines
<1> QED BY <1>1, <1>7, <1>8, <1>9 DEF Handled

(* DECALN fills the screen that shows. *)
FilledWith(n, x) == [i \in 0 .. n - 1 |-> [text |-> x, wrapped |-> FALSE]]
LEMMA AlignmentFacts ==
    ASSUME IInv, ScreenAlignment
    PROVE  \E x \in WritableText(term) : \E u :
              /\ Stored(u, term.rows) /\ SameLines(u, term)
              /\ FilledWith(term.rows, x) \in [0 .. term.rows - 1 -> Line]
              /\ term' = AtBottom(WithScreen(u, FilledWith(term.rows, x)))
<1> DEFINE n == term.rows
<1>1. /\ cfg \in Configs /\ n \in Nat /\ Stored(term, n)
  BY CfgFacts DEF IInv
<1>2. PICK x \in WritableText(term) :
         term' = [check_selection(term, 0, n - 1, TRUE) EXCEPT
                     !.screen = FilledWith(n, x), !.disptop = 0]
  BY DEF ScreenAlignment, Output, FilledWith
<1> DEFINE u == check_selection(term, 0, n - 1, TRUE)
<1>3. PICK top, bot, shared : top = 0 /\ bot = n - 1 /\ shared = TRUE
  OBVIOUS
<1>4. /\ Stored(check_selection(term, top, bot, shared), n)
      /\ SameLines(check_selection(term, top, bot, shared), term)
  BY <1>1, CheckSelectionFacts
<1>5. Stored(u, n) /\ SameLines(u, term)
  BY <1>3, <1>4
<1> HIDE DEF u
<1>6. x \in Labels
  BY <1>1, CfgFacts DEF WritableText
<1>7. FilledWith(n, x) \in [0 .. n-1 -> Line]
  <2>1. [text |-> x, wrapped |-> FALSE] \in Line
    BY <1>6 DEF Line
  <2> QED BY <2>1 DEF FilledWith
<1>8. term' = AtBottom(WithScreen(u, FilledWith(n, x)))
  BY <1>2 DEF u, AtBottom, WithScreen
<1> QED BY <1>5, <1>7, <1>8

(* ... and the display returns to the bottom. *)
LEMMA AlignmentHandled ==
    ASSUME IInv, ScreenAlignment
    PROVE  Handled(term', term)
<1> DEFINE n == term.rows
<1>1. /\ cfg \in Configs /\ n \in Heights /\ n \in Nat /\ Stored(term, n)
  BY CfgFacts DEF IInv
<1>2a. PICK x \in WritableText(term) : \E u :
              /\ Stored(u, n) /\ SameLines(u, term)
              /\ FilledWith(n, x) \in [0 .. n - 1 -> Line]
              /\ term' = AtBottom(WithScreen(u, FilledWith(n, x)))
  BY AlignmentFacts
<1>2. PICK u :
              /\ Stored(u, n) /\ SameLines(u, term)
              /\ FilledWith(n, x) \in [0 .. n - 1 -> Line]
              /\ term' = AtBottom(WithScreen(u, FilledWith(n, x)))
  BY <1>2a
<1> HIDE DEF n
<1> DEFINE v == WithScreen(u, FilledWith(n, x))
<1>3. /\ Stored(v, n) /\ SameFrame(v, u) /\ v.scrollback = u.scrollback
  BY <1>1, <1>2, WithScreenFacts
<1> HIDE DEF v
<1>4. Handled(AtBottom(v), term)
  BY <1>1, <1>2, <1>3, BottomHandled DEF SameFrame, SameLines
<1> QED BY <1>2, <1>4 DEF v
(* The private modes of the alternate screen, whatever they ask for. *)
LEMMA SwapToFacts ==
    ASSUME cfg \in Configs, NEW n \in Nat, NEW t, Stored(t, n), NEW state \in {0, 1},
           NEW reset, NEW keep
    PROVE  LET u == SwapTo(t, state, reset, keep)
           IN  /\ Stored(u, n) /\ u.disptop = 0 /\ Viewed(u)
               /\ u.scrollback = t.scrollback /\ u.tempsblines = t.tempsblines
               /\ MainScreen(u) = MainScreen(t)
               /\ AltScreen(u) = AltScreen(t) \/ (u.alt_which = 1 /\ BlankRows(u))
<1> DEFINE d == deselect(t)
           u == SwapTo(t, state, reset, keep)
<1>1. Stored(d, n) /\ SameLines(d, t)
  BY DeselectFacts
<1>2. PICK which \in {0, 1} : which = IF NoAltScreen THEN 0 ELSE state
  OBVIOUS
<1> DEFINE v == swap_screen(d, which, reset, keep)
<1>3. u = AtBottom(v)
  BY <1>2 DEF SwapTo, AtBottom
<1> HIDE DEF d
<1>4. /\ Stored(v, n) /\ v.alt_which = which
      /\ v.scrollback = d.scrollback /\ v.tempsblines = d.tempsblines
      /\ MainScreen(v) = MainScreen(d)
      /\ AltScreen(v) = AltScreen(d) \/ (which = 1 /\ BlankRows(v))
  BY <1>1, SwapFacts
<1> HIDE DEF v, u
<1>5. /\ Stored(u, n) /\ Viewed(u) /\ SameFrame(u, v) /\ u.screen = v.screen
      /\ u.scrollback = v.scrollback /\ u.tempsblines = v.tempsblines
      /\ u.disptop = 0
  BY <1>3, <1>4, AtBottomFacts
<1>6. /\ d.scrollback = t.scrollback /\ d.tempsblines = t.tempsblines
      /\ MainScreen(d) = MainScreen(t) /\ AltScreen(d) = AltScreen(t)
  BY <1>1 DEF SameLines, MainScreen, AltScreen
<1>7. /\ MainScreen(u) = MainScreen(v) /\ AltScreen(u) = AltScreen(v)
      /\ BlankRows(v) => BlankRows(u)
  BY <1>5 DEF SameFrame, MainScreen, AltScreen, BlankRows
<1> QED BY <1>4, <1>5, <1>6, <1>7 DEF u, SameFrame

(* What AltScreenMode makes of the terminal: 1049 puts the cursor anywhere. *)
LEMMA AltModeFacts ==
    ASSUME IInv, AltScreenMode
    PROVE  /\ Stored(term', term.rows) /\ term'.disptop = 0 /\ Viewed(term')
           /\ term'.scrollback = term.scrollback /\ term'.tempsblines = term.tempsblines
           /\ MainScreen(term') = MainScreen(term)
           /\ AltScreen(term') = AltScreen(term) \/ (term'.alt_which = 1 /\ BlankRows(term'))
<1> DEFINE n == term.rows
           Swapped(u) ==
              /\ Stored(u, n) /\ u.disptop = 0 /\ Viewed(u)
              /\ u.scrollback = term.scrollback /\ u.tempsblines = term.tempsblines
              /\ MainScreen(u) = MainScreen(term)
              /\ AltScreen(u) = AltScreen(term) \/ (u.alt_which = 1 /\ BlankRows(u))
<1>1. /\ cfg \in Configs /\ n \in Nat /\ Stored(term, n)
  BY CfgFacts DEF IInv
<1> HIDE DEF n
<1>2. \E state \in {0, 1} : \E reset, keep :
         \/ term' = SwapTo(term, state, reset, keep)
         \/ \E y \in 0 .. n-1 : term' = [SwapTo(term, state, reset, keep) EXCEPT !.cursy = y]
  BY DEF AltScreenMode, Output, n
<1>2a. PICK state \in {0, 1} : \E reset, keep :
         \/ term' = SwapTo(term, state, reset, keep)
         \/ \E y \in 0 .. n-1 : term' = [SwapTo(term, state, reset, keep) EXCEPT !.cursy = y]
  BY <1>2
<1>3. PICK reset, keep :
         \/ term' = SwapTo(term, state, reset, keep)
         \/ \E y \in 0 .. n-1 : term' = [SwapTo(term, state, reset, keep) EXCEPT !.cursy = y]
  BY <1>2a
<1> DEFINE u == SwapTo(term, state, reset, keep)
<1>4. Swapped(u)
  BY <1>1, SwapToFacts
<1> HIDE DEF u
<1>5. ASSUME NEW y \in 0 .. n-1 PROVE Swapped([u EXCEPT !.cursy = y])
  <2> DEFINE v == [u EXCEPT !.cursy = y]
  <2>1. /\ Stored(v, n) /\ v.rows = u.rows /\ v.alt_which = u.alt_which
        /\ v.screen = u.screen /\ v.alt_screen = u.alt_screen
        /\ v.scrollback = u.scrollback /\ v.tempsblines = u.tempsblines
        /\ v.disptop = u.disptop
    BY <1>1, <1>4, WithCursorFacts
  <2> HIDE DEF v
  <2>2. Viewed(v)
    BY <1>1, <1>4, <2>1, BottomViewed
  <2> QED BY <1>4, <2>1, <2>2 DEF MainScreen, AltScreen, BlankRows, v
<1> HIDE DEF Swapped
<1>6. Swapped(term')
  BY <1>3, <1>4, <1>5 DEF u
<1> QED BY <1>6 DEF Swapped, n

(* The primary screen is the same after it, and so is the scrollback. *)
LEMMA AltModeHandled ==
    ASSUME IInv, AltScreenMode
    PROVE  Handled(term', term)
<1> DEFINE n == term.rows
<1>1. cfg \in Configs /\ n \in Heights /\ n \in Nat
  BY CfgFacts DEF IInv
<1>2. /\ Stored(term', n) /\ Viewed(term')
      /\ term'.scrollback = term.scrollback /\ MainScreen(term') = MainScreen(term)
  BY AltModeFacts
<1> HIDE DEF n
<1>3. term'.rows = n
  BY <1>2 DEF Stored, Terminals
<1> QED BY <1>1, <1>2, <1>3 DEF Handled, MainScreen
(* DECCOLM: the screen that shows is erased, perhaps after a change of size. *)
LEMMA ColumnModeFacts ==
    ASSUME IInv, ColumnMode
    PROVE  \E u : /\ Handled(u, term) /\ u.rows = term.rows
                  /\ u \in {deselect(term), Resized(deselect(term), term.rows)}
                  /\ term' = EraseAll(FullMargins(u))
<1> DEFINE n == term.rows
           d == deselect(term)
           r == Resized(d, n)
<1>1. /\ cfg \in Configs /\ n \in Heights /\ n \in Nat /\ Stored(term, n) /\ Viewed(term)
  BY CfgFacts DEF IInv
<1>2. Stored(d, n) /\ SameLines(d, term)
  BY <1>1, DeselectFacts
<1>3. PICK u \in {d, r} : term' = EraseAll(FullMargins(u))
  BY DEF ColumnMode, Output, FullMargins
<1> HIDE DEF d, n
<1>4. Handled(d, term) /\ d.rows = n
  BY <1>1, <1>2, SelectionHandled DEF n, SameLines
<1>5. Handled(r, term) /\ r.rows = n
  <2>1. Handled(r, d)
    BY <1>1, <1>2, ResizedHandled
  <2>2. Stored(r, n)
    BY <1>1, <1>2, CfgFacts, ResizedFacts
  <2> HIDE DEF r
  <2>3. r.rows = n
    BY <2>2 DEF Stored, Terminals
  <2>4. Handled(r, term)
    BY <1>2, <1>4, <2>1, <2>3 DEF Handled, SameLines
  <2> QED BY <2>3, <2>4
<1> HIDE DEF r
<1>6. Handled(u, term) /\ u.rows = n
  BY <1>4, <1>5
<1> QED BY <1>3, <1>6 DEF d, r, n

(* Neither touches the primary screen while the alternate one shows. *)
LEMMA ColumnModeHandled ==
    ASSUME IInv, ColumnMode
    PROVE  Handled(term', term)
<1> DEFINE n == term.rows
<1>1. /\ cfg \in Configs /\ n \in Heights /\ n \in Nat /\ n >= 1
  BY CfgFacts DEF IInv
<1>2. PICK u : /\ Handled(u, term) /\ u.rows = n
               /\ term' = EraseAll(FullMargins(u))
  BY ColumnModeFacts
<1> HIDE DEF n
<1> DEFINE f == FullMargins(u)
           v == EraseAll(f)
<1>3. /\ Stored(f, n) /\ f.alt_which = u.alt_which /\ f.rows = u.rows
      /\ f.alt_screen = u.alt_screen /\ f.scrollback = u.scrollback
      /\ Viewed(u) => Viewed(f)
  BY <1>1, <1>2, FullMarginsFacts DEF Handled
<1> HIDE DEF f
<1>4. /\ Stored(v, n) /\ SameFrame(v, f)
      /\ f.alt_which = 1 => v.scrollback = f.scrollback
      /\ Viewed(f) => Viewed(v)
  BY <1>1, <1>3, EraseAllFacts
<1> HIDE DEF v
<1>5. Handled(v, term)
  BY <1>1, <1>2, <1>3, <1>4 DEF Handled, SameFrame
<1> QED BY <1>2, <1>5 DEF v, f

(* RIS and a new session turn to the primary screen. *)
LEMMA PowerOnHandled ==
    ASSUME IInv, Reset \/ Restart
    PROVE  Handled(term', term)
<1> DEFINE n == term.rows
<1>1. /\ cfg \in Configs /\ n \in Heights /\ n \in Nat /\ n >= 1
      /\ Stored(term, n) /\ Viewed(term)
  BY CfgFacts DEF IInv
<1> HIDE DEF n
<1>2. ASSUME NEW clear PROVE Stored(power_on(term, clear), n) /\ power_on(term, clear).alt_which = 0
  BY <1>1, PowerOnFacts
<1>3. CASE Reset
  <2>1. PICK clear : clear = TRUE
    OBVIOUS
  <2> DEFINE u == power_on(term, clear)
             r == Resized(u, u.rows)
  <2>2. PICK v \in {u, r} : term' = AtBottom(v)
    BY <1>3, <2>1 DEF Reset, Output, AtBottom
  <2>3. Stored(u, n) /\ u.alt_which = 0
    BY <1>2
  <2> HIDE DEF u
  <2>4. u.rows = n
    BY <2>3 DEF Stored, Terminals
  <2>5. Stored(r, n) /\ r.alt_which = u.alt_which
    BY <1>1, <2>3, <2>4, ResizedFacts
  <2> HIDE DEF r
  <2>6. Stored(v, n) /\ v.alt_which = 0
    BY <2>3, <2>5
  <2>7. Handled(AtBottom(v), term)
    BY <1>1, <2>6, BottomHandled
  <2> QED BY <2>2, <2>7
<1>4. CASE Restart
  <2>1. PICK clear : clear = FALSE
    OBVIOUS
  <2> DEFINE u == power_on(term, clear)
             b == AtBottom(u)
             v == deselect(b)
  <2>2. term' = v
    BY <1>4, <2>1 DEF Restart, AtBottom
  <2>3. Stored(u, n) /\ u.alt_which = 0
    BY <1>2
  <2> HIDE DEF u
  <2>4. Stored(b, n) /\ SameFrame(b, u) /\ b.disptop = 0
    BY <1>1, <2>3, AtBottomFacts
  <2> HIDE DEF b
  <2>5. Stored(v, n) /\ SameLines(v, b)
    BY <1>1, <2>4, DeselectFacts
  <2> HIDE DEF v
  <2>6. /\ Viewed(v) /\ v.rows = n /\ v.alt_which = 0
    BY <1>1, <2>3, <2>4, <2>5, BottomViewed DEF SameLines, SameFrame, Stored, Terminals
  <2> QED BY <1>1, <2>2, <2>5, <2>6 DEF Handled
<1> QED BY <1>3, <1>4

(* The actions of the user who scrolls the view. *)
LEMMA ViewHandled ==
    ASSUME IInv, ViewScroll \/ ReturnToBottom
    PROVE  Handled(term', term)
<1> DEFINE n == term.rows
<1>1. /\ cfg \in Configs /\ n \in Heights /\ n \in Nat
      /\ Stored(term, n) /\ Viewed(term)
  BY CfgFacts DEF IInv
<1> HIDE DEF n
<1>2. CASE ViewScroll
  <2>1. PICK pos \in ViewRows : term' = ViewTo(term, pos)
    BY <1>2 DEF ViewScroll
  <2> DEFINE d == Lesser(Greater(pos, -sblines(term)), 0)
             v == [term EXCEPT !.disptop = d]
  <2>2. sblines(term) \in Nat /\ pos \in Int
    <3>1. Len(term.scrollback) \in Nat /\ term.alt_sblines \in Nat
      BY <1>1, LenProperties DEF Stored, Terminals
    <3>2. altlines(term) \in Nat
      BY <3>1 DEF altlines
    <3> QED BY <1>1, <3>1, <3>2, CfgFacts DEF sblines
  <2>3. d \in -sblines(term) .. 0
    BY <2>2 DEF Lesser, Greater
  <2>4. term' = v
    BY <2>1 DEF ViewTo
  <2> HIDE DEF d
  <2>5. d \in Int
    BY <2>2, <2>3
  <2>6. Stored(v, n)
    BY <1>1, <2>5, ViewStored
  <2>7. v.disptop = d /\ SameFrame(v, term) /\ v.scrollback = term.scrollback /\ v.rows = n
    BY <1>1 DEF Stored, Terminals, SameFrame, n
  <2> HIDE DEF v
  <2>8. sblines(v) = sblines(term)
    BY <2>7 DEF sblines, altlines, SameFrame
  <2>9. Viewed(v)
    BY <2>3, <2>7, <2>8 DEF Viewed
  <2> QED BY <1>1, <2>4, <2>6, <2>7, <2>9 DEF Handled, SameFrame
<1>3. CASE ReturnToBottom
  <2>1. term' = AtBottom(term)
    BY <1>3 DEF ReturnToBottom, AtBottom
  <2> QED BY <1>1, <2>1, BottomHandled
<1> QED BY <1>2, <1>3
(* The number of lines above the screen. *)
LEMMA SblinesType ==
    ASSUME NEW n \in Nat, NEW t, Stored(t, n)
    PROVE  sblines(t) \in Nat
<1>1. Len(t.scrollback) \in Nat /\ t.alt_sblines \in Nat
  BY LenProperties DEF Stored, Terminals
<1> QED BY <1>1 DEF sblines, altlines

(* A drag of the mouse sets the selection, wherever its ends come to lie. *)
LEMMA SelectingFacts ==
    ASSUME cfg \in Configs, NEW n \in Nat, NEW t, Stored(t, n), NEW a \in Int, NEW p \in Int,
           Selecting(t, a, p)
    PROVE  Stored(term', n) /\ SameLines(term', t)
<1>1. /\ Lesser(a, p) \in Int /\ Greater(a, p) \in Int
      /\ sblines(t) \in Nat /\ t.rows \in Nat
  BY LesserFacts, SblinesType DEF Stored, Terminals
<1>2. PICK st \in SelStates, e \in BOOLEAN : st = "DRAGGING" /\ e = FALSE
  BY DEF SelStates
<1>3. PICK lo \in SpreadUp(t, Lesser(a, p)), hi \in SpreadDown(t, Greater(a, p)) :
         term' = [t EXCEPT !.selstate = st, !.selanchor = a,
                           !.selstart = lo, !.selend = hi, !.selempty = e]
  BY <1>2 DEF Selecting
<1>4. lo \in Int /\ hi \in Int
  <2>1. /\ lo \in -sblines(t) .. Lesser(a, p)
        /\ hi \in Greater(a, p) .. t.rows - 1
    BY DEF SpreadUp, SpreadDown
  <2> QED BY <1>1, <2>1
<1>5. t \in Terminals(n)
  BY DEF Stored
<1>6. term' \in Terminals(n) /\ SameLines(term', t)
  BY <1>3, <1>4, <1>5 DEF Terminals, SameLines
<1> QED BY <1>6 DEF Stored, RegionOK, Rows, SameLines

(* The mouse and the clipboard change only the selection. *)
LEMMA MouseFacts ==
    ASSUME IInv,
           MouseClick \/ MouseDoubleClick \/ MouseExtend \/ MouseMove \/ MouseRelease
              \/ LoseClipboard
    PROVE  Stored(term', term.rows) /\ SameLines(term', term)
<1> DEFINE n == term.rows
<1>1. /\ cfg \in Configs /\ n \in Nat /\ Stored(term, n) /\ term \in Terminals(n)
  BY CfgFacts DEF IInv, Stored
<1>2. ASSUME NEW y \in MouseRows PROVE SelPoint(term, y) \in Int /\ y \in Int
  <2>1. y \in Int /\ term.disptop \in Int
    BY <1>1, CfgFacts DEF Terminals
  <2> QED BY <1>1, <2>1 DEF SelPoint, Lesser
<1>3. term.selanchor \in Int /\ term.selstart \in Int /\ term.selend \in Int
  BY <1>1 DEF Terminals
<1> HIDE DEF n
<1>4. CASE MouseClick
  <2>1. PICK st \in SelStates, e \in BOOLEAN : st = "DRAGGING" /\ e = TRUE
    BY DEF SelStates
  <2>2. PICK p \in Int :
           term' = [term EXCEPT !.selstate = st, !.selanchor = p,
                                !.selstart = p, !.selend = p, !.selempty = e]
    BY <1>2, <1>4, <2>1 DEF MouseClick
  <2>3. term' \in Terminals(n) /\ SameLines(term', term)
    BY <1>1, <2>2 DEF Terminals, SameLines
  <2> QED BY <1>1, <2>3 DEF Stored, RegionOK, Rows, SameLines, n
<1>5. CASE MouseDoubleClick
  <2>1. PICK p \in Int : Selecting(deselect(term), p, p)
    BY <1>2, <1>5 DEF MouseDoubleClick
  <2>2. Stored(deselect(term), n) /\ SameLines(deselect(term), term)
    BY <1>1, DeselectFacts
  <2>3. Stored(term', n) /\ SameLines(term', deselect(term))
    BY <1>1, <2>1, <2>2, SelectingFacts
  <2> QED BY <2>2, <2>3 DEF SameLines, n
<1>6. CASE MouseExtend
  <2>1. PICK y \in MouseRows :
           \E a \in Anchors(term, SelPoint(term, y)) \intersect BufferRows(term) :
              Selecting(term, a, SelPoint(term, y))
    BY <1>6 DEF MouseExtend
  <2>2. PICK a \in BufferRows(term) : Selecting(term, a, SelPoint(term, y))
    BY <2>1
  <2>3. a \in Int /\ SelPoint(term, y) \in Int
    BY <1>1, <1>2, SblinesType DEF BufferRows, n
  <2> QED BY <1>1, <2>2, <2>3, SelectingFacts DEF n
<1>7. CASE MouseMove
  <2>1. PICK y \in MouseRows \union {-1, term.rows}, e \in BOOLEAN :
           term' = [term EXCEPT !.selstart = Lesser(term.selanchor, y),
                                !.selend = Greater(term.selanchor, y),
                                !.selempty = e]
    BY <1>7 DEF MouseMove
  <2>2. y \in Int
    BY <1>1, <1>2 DEF n
  <2> DEFINE lo == Lesser(term.selanchor, y)
             hi == Greater(term.selanchor, y)
  <2>3. lo \in Int /\ hi \in Int
    BY <1>3, <2>2 DEF Lesser, Greater
  <2> HIDE DEF lo, hi
  <2>4. term' = [term EXCEPT !.selstart = lo, !.selend = hi, !.selempty = e]
    BY <2>1 DEF lo, hi
  <2>5. term' \in Terminals(n) /\ SameLines(term', term)
    BY <1>1, <2>3, <2>4 DEF Terminals, SameLines
  <2> QED BY <1>1, <2>5 DEF Stored, RegionOK, Rows, SameLines, n
<1>8. CASE MouseRelease
  <2>1. PICK st \in SelStates, z \in Int :
           z = 0 /\ st = IF term.selstate = "DRAGGING" THEN "SELECTED" ELSE "NO_SELECTION"
    BY DEF SelStates
  <2>2. term' = [term EXCEPT !.selanchor = z, !.selstate = st]
    BY <1>8, <2>1 DEF MouseRelease
  <2>3. term' \in Terminals(n) /\ SameLines(term', term)
    BY <1>1, <2>2 DEF Terminals, SameLines
  <2> QED BY <1>1, <2>3 DEF Stored, RegionOK, Rows, SameLines, n
<1>9. CASE LoseClipboard
  <2>1. term' = deselect(term)
    BY <1>9 DEF LoseClipboard
  <2> QED BY <1>1, <2>1, DeselectFacts DEF n
<1> QED BY <1>4, <1>5, <1>6, <1>7, <1>8, <1>9

(* Every action. *)
LEMMA StepHandled ==
    ASSUME IInv, Next
    PROVE  Handled(term', term) /\ cfg' = cfg /\ erased' \subseteq Text
<1>1. /\ cfg \in Configs /\ term.rows \in Heights
      /\ Stored(term, term.rows) /\ Viewed(term) /\ erased \subseteq Text
  BY DEF IInv
<1>2. CASE MoveRow \/ LineFeed \/ ReverseIndex \/ GraphicChar
              \/ ScrollRegion \/ InsertLines \/ DeleteLines
  BY <1>1, <1>2, PrintingHandled
<1>3. CASE EraseDisplay \/ EraseFromHome \/ EraseSavedLines \/ EraseInLine
  <2>1. cfg' = cfg /\ erased' \subseteq Text
    BY <1>1, <1>3 DEF EraseDisplay, EraseFromHome, EraseSavedLines, EraseInLine,
                      ErasedBy, Recorded
  <2> QED BY <1>3, <2>1, ErasingHandled
<1>4. CASE SetMargins
  BY <1>1, <1>4, SetMarginsHandled DEF SetMargins
<1>5. CASE ScreenAlignment
  BY <1>1, <1>5, AlignmentHandled DEF ScreenAlignment
<1>6. CASE AltScreenMode
  BY <1>1, <1>6, AltModeHandled DEF AltScreenMode
<1>7. CASE ColumnMode
  <2>1. cfg' = cfg /\ erased' \subseteq Text
    BY <1>1, <1>7 DEF ColumnMode, ErasedBy, Recorded
  <2> QED BY <1>7, <2>1, ColumnModeHandled
<1>8. CASE Reset \/ Restart
  <2>1. cfg' = cfg /\ erased' \subseteq Text
    BY <1>1, <1>8 DEF Reset, Restart, Recorded
  <2> QED BY <1>8, <2>1, PowerOnHandled
<1>9. CASE Resize
  <2>1. PICK m \in Heights : term' = Resized(term, m)
    BY <1>9 DEF Resize
  <2>2. cfg' = cfg /\ erased' = erased
    BY <1>9 DEF Resize
  <2> QED BY <1>1, <2>1, <2>2, ResizedHandled
<1>10. CASE ViewScroll \/ ReturnToBottom
  <2>1. cfg' = cfg /\ erased' = erased
    BY <1>10 DEF ViewScroll, ReturnToBottom
  <2> QED BY <1>1, <1>10, <2>1, ViewHandled
<1>11. CASE MouseClick \/ MouseDoubleClick \/ MouseExtend \/ MouseMove \/ MouseRelease
               \/ LoseClipboard
  <2>1. cfg' = cfg /\ erased' = erased
    BY <1>11 DEF MouseClick, MouseDoubleClick, MouseExtend, MouseMove, MouseRelease,
                 LoseClipboard
  <2> QED BY <1>1, <1>11, <2>1, MouseFacts, SelectionHandled
<1> QED BY <1>2, <1>3, <1>4, <1>5, <1>6, <1>7, <1>8, <1>9, <1>10, <1>11 DEF Next
-----------------------------------------------------------------------------
(* The theorems. *)

(* A terminal starts in order. *)
LEMMA InitialStored ==
    ASSUME cfg \in Configs, NEW n \in Heights
    PROVE  Stored(InitialTerm(n), n) /\ Viewed(InitialTerm(n))
<1> DEFINE t == InitialTerm(n)
           e == <<>>
<1>1. /\ n \in Nat /\ n >= 1 /\ SaveLines \in Nat /\ BlankLine \in Line
  BY CfgFacts
<1>2. e \in Seq(Line) /\ Len(e) = 0
  BY EmptySeq
<1>3. BlankScreen(n) \in [0 .. n-1 -> Line]
  BY <1>1 DEF BlankScreen
<1>4. PICK z \in 0 .. n-1, b \in 0 .. n-1, w \in {0, 1}, a \in 0 .. n, k \in Nat, d \in Int :
          z = 0 /\ b = n - 1 /\ w = 0 /\ a = 0 /\ k = 0 /\ d = 0
  BY <1>1
<1>5. PICK st \in SelStates, yes \in BOOLEAN : st = "NO_SELECTION" /\ yes = TRUE
  BY DEF SelStates
<1>6. /\ t.rows = n /\ t.screen = BlankScreen(n) /\ t.alt_screen = BlankScreen(n)
      /\ t.scrollback = e /\ t.tempsblines = k /\ t.disptop = d /\ t.alt_which = w
      /\ t.marg_t = z /\ t.marg_b = b /\ t.alt_t = z /\ t.alt_b = b
  BY <1>4 DEF InitialTerm
<1>7. t \in Terminals(n)
  <2> HIDE DEF e
  <2>1. t = [rows |-> n, screen |-> BlankScreen(n), alt_screen |-> BlankScreen(n),
             scrollback |-> e, tempsblines |-> k, disptop |-> d,
             alt_which |-> w, alt_sblines |-> a,
             cursy |-> z, alt_y |-> z, marg_t |-> z, marg_b |-> b,
             alt_t |-> z, alt_b |-> b, selstate |-> st, selempty |-> yes,
             selstart |-> d, selend |-> d, selanchor |-> d]
    BY <1>4, <1>5 DEF InitialTerm, e
  <2> HIDE DEF t
  <2> QED BY <1>2, <1>3, <2>1 DEF Terminals
<1> HIDE DEF t, e
<1>8. Stored(t, n)
  BY <1>1, <1>2, <1>4, <1>6, <1>7 DEF Stored, RegionOK, Rows
<1>9. Viewed(t)
  BY <1>1, <1>4, <1>6, <1>8, BottomViewed
<1> QED BY <1>8, <1>9 DEF t

(* The invariant holds at first ... *)
LEMMA InitInvariant ==
    ASSUME Init
    PROVE  IInv
<1>1. cfg \in Configs /\ erased = {}
  BY DEF Init
<1>2. PICK n \in Heights : term = InitialTerm(n)
  BY DEF Init
<1>3. Stored(term, n) /\ Viewed(term)
  BY <1>1, <1>2, InitialStored
<1>4. term.rows = n
  BY <1>3 DEF Stored, Terminals
<1> QED BY <1>1, <1>3, <1>4 DEF IInv

(* ... and after every step. *)
LEMMA StepInvariant ==
    ASSUME IInv, [Next]_vars
    PROVE  IInv'
<1>1. /\ cfg \in Configs /\ cfg' = cfg /\ erased' \subseteq Text
      /\ term'.rows \in Heights /\ Stored(term', term'.rows) /\ Viewed(term')
  <2>1. CASE Next
    BY <2>1, StepHandled DEF IInv, Handled
  <2>2. CASE UNCHANGED vars
    BY <2>2 DEF IInv, vars
  <2> QED BY <2>1, <2>2
<1>2. /\ (Text = Text') /\ (Heights = Heights') /\ (SaveLines = SaveLines')
      /\ (AltText = AltText') /\ (EraseToScrollback = EraseToScrollback')
  BY <1>1 DEF Text, Heights, SaveLines, AltText, EraseToScrollback
<1>3. (Line = Line') /\ Labels' = Labels
  BY <1>2 DEF Line, Labels
<1>4. Stored(term, term.rows)'
  BY <1>1, <1>2, <1>3 DEF Stored, Terminals, RegionOK, Rows
<1>5. Viewed(term)'
  BY <1>1, <1>2 DEF Viewed, sblines, altlines
<1> QED BY <1>1, <1>2, <1>4, <1>5 DEF IInv

(* What the invariant says of a terminal is what BufferSound says. *)
LEMMA InvariantSound ==
    ASSUME IInv
    PROVE  BufferSound
<1> DEFINE n == term.rows
<1>1. /\ cfg \in Configs /\ n \in Heights /\ n \in Nat /\ n >= 1
      /\ Stored(term, n) /\ Viewed(term) /\ erased \subseteq Text
  BY CfgFacts DEF IInv
<1>2. /\ term.screen \in [0 .. n-1 -> Line] /\ term.alt_screen \in [0 .. n-1 -> Line]
      /\ term.scrollback \in Seq(Line) /\ term.tempsblines \in Nat /\ term.disptop \in Int
      /\ term.alt_which \in {0, 1} /\ term.alt_sblines \in 0 .. n
      /\ term.cursy \in 0 .. n-1 /\ term.alt_y \in 0 .. n-1
      /\ term.marg_t \in 0 .. n-1 /\ term.marg_b \in 0 .. n-1
      /\ term.alt_t \in 0 .. n-1 /\ term.alt_b \in 0 .. n-1
      /\ term.selstate \in SelStates /\ term.selempty \in BOOLEAN
      /\ term.selstart \in Int /\ term.selend \in Int /\ term.selanchor \in Int
  BY <1>1 DEF Stored, Terminals
<1>3. /\ Len(term.scrollback) \in Nat /\ Len(term.scrollback) <= SaveLines
      /\ term.tempsblines <= Len(term.scrollback)
      /\ RegionOK(term, term.marg_t, term.marg_b) /\ RegionOK(term, term.alt_t, term.alt_b)
  BY <1>1, <1>2, LenProperties DEF Stored
<1>4. ScrollbackBounded
  BY <1>2, <1>3 DEF ScrollbackBounded
<1>5. CursorAndMarginsOnScreen
  BY <1>2, <1>3 DEF CursorAndMarginsOnScreen, Rows
<1>6. ViewportInBuffer
  BY <1>1, <1>2 DEF ViewportInBuffer, Viewed
<1>7. TypeOK
  <2>1. /\ term.tempsblines \in Int /\ term.disptop \in Int /\ term.alt_sblines \in Int
        /\ term.cursy \in Int /\ term.alt_y \in Int
        /\ term.marg_t \in Int /\ term.marg_b \in Int
        /\ term.alt_t \in Int /\ term.alt_b \in Int
    <3>1. \A i \in 0 .. n : i \in Int
      BY <1>1
    <3>2. \A i \in 0 .. n-1 : i \in Int
      BY <1>1
    <3>3. term.tempsblines \in Int /\ term.disptop \in Int /\ term.alt_sblines \in Int
      BY <1>2, <3>1
    <3>4. term.cursy \in Int /\ term.alt_y \in Int
      BY <1>2, <3>2
    <3>5. term.marg_t \in Int /\ term.marg_b \in Int
      BY <1>2, <3>2
    <3>6. term.alt_t \in Int /\ term.alt_b \in Int
      BY <1>2, <3>2
    <3> QED BY <3>3, <3>4, <3>5, <3>6
  <2>2. {term.tempsblines, term.disptop, term.alt_sblines, term.cursy, term.alt_y,
         term.marg_t, term.marg_b, term.alt_t, term.alt_b,
         term.selstart, term.selend, term.selanchor} \subseteq Int
    BY <1>2, <2>1
  <2> QED BY <1>1, <1>2, <2>2 DEF TypeOK, Rows
<1> QED BY <1>4, <1>5, <1>6, <1>7 DEF BufferSound

(* The invariant holds throughout. *)
LEMMA AlwaysInvariant == Spec => []IInv
<1>1. Init => IInv
  BY InitInvariant
<1>2. IInv /\ [Next]_vars => IInv'
  BY StepInvariant
<1> QED BY <1>1, <1>2, PTL DEF Spec

(* Whatever is printed, scrolled, erased, resized, reset, selected or viewed, both
   screens have the rows the window has, cursors and regions lie on them, no more
   lines can be taken back than are kept, and the view lies in the buffer: painting
   never asks lineptr() for a line that does not exist. *)
THEOREM BufferAlwaysSound == Spec => []BufferSound
<1>1. IInv => BufferSound
  BY InvariantSound
<1> QED BY <1>1, AlwaysInvariant, PTL

(* While the alternate screen is in use and the window keeps its size, no handler
   changes the primary screen, and the scrollback is left alone or emptied. *)
THEOREM AltScreenLeavesMain == Spec => AltLeavesMain
<1>1. IInv /\ [Next]_vars =>
        [(term.alt_which = 1 /\ term'.alt_which = 1 /\ term'.rows = term.rows)
            => /\ term'.alt_screen = term.alt_screen
               /\ term'.scrollback \in {term.scrollback, <<>>}]_vars
  BY StepHandled DEF Handled
<1> QED BY <1>1, AlwaysInvariant, PTL DEF Spec, AltLeavesMain
-----------------------------------------------------------------------------
(* A change of size and back. *)

(* What a shorter window did to the rows down to the cursor the taller one undoes:
   the rows pushed off the top, if the scrollback kept them, come back first. *)
LEMMA RoundTripFacts ==
    ASSUME cfg \in Configs, NEW n \in Nat, NEW t, Stored(t, n), NEW h \in Nat, h >= 1, h < n,
           Pushed(Primary(t), n - h) <= SaveLines,
           NEW y \in 0 .. MainCursor(t)
    PROVE  LET after == Resized(Resized(t, h), n)
               x     == y + (MainCursor(after) - MainCursor(t))
           IN  /\ x \in 0 .. n-1 /\ after.rows = n
               /\ MainScreen(after)[x] = MainScreen(t)[y]
<1> DEFINE a == Resized(t, h)
           b == Resized(a, n)
           l == Len(t.scrollback)
           r == Len(a.scrollback)
           c == MainCursor(t)
           s == MainScreen(t)
<1>1. /\ Stored(a, h) /\ \E k \in Nat : IsShorter(a, t, k, n, h)
  BY ResizedFacts
<1>2. PICK k \in Nat : IsShorter(a, t, k, n, h)
  BY <1>1
<1> HIDE DEF a
<1>3. /\ Stored(b, n) /\ \E j \in Nat : IsTaller(b, a, j, h, n)
  <2>1. n >= 1 /\ n >= h
    OBVIOUS
  <2> QED BY <1>1, <2>1, ResizedFacts
<1>4. PICK j \in Nat : IsTaller(b, a, j, h, n)
  BY <1>3
<1> HIDE DEF b
<1>5. /\ l \in Nat /\ r \in Nat /\ c \in 0 .. n-1 /\ b.rows = n
      /\ t.tempsblines \in Nat /\ a.tempsblines \in Nat /\ SaveLines \in Nat
      /\ s \in [0 .. n-1 -> Line]
  BY <1>1, <1>3, CfgFacts, LenProperties DEF Stored, Terminals, MainCursor, MainScreen
<1> HIDE DEF c, s, l, r
<1>6. /\ k <= SaveLines /\ k <= n - h
      /\ MainScreen(a) = ShorterScreen(s, k, h)
      /\ r = Lesser(l + k, SaveLines)
      /\ IsPushed(a.scrollback, t.scrollback, s, k, (l + k) - r)
      /\ a.tempsblines = Lesser(t.tempsblines + k, r)
      /\ MainCursor(a) = c - k /\ MainCursor(a) \in 0 .. h-1
  BY <1>2 DEF IsShorter, l, r, c, s
<1>7. /\ j <= n - h /\ (j = n - h \/ j = a.tempsblines)
      /\ MainScreen(b) = TallerScreen(MainScreen(a), a.scrollback, j, h, n)
      /\ MainCursor(b) = MainCursor(a) + j
  BY <1>4 DEF IsTaller
<1>8. k <= r /\ k <= a.tempsblines /\ k <= j
  BY <1>5, <1>6, <1>7 DEF Lesser
<1> DEFINE x == y + (MainCursor(b) - c)
<1>9. x = y + j - k
  <2>1. MainCursor(b) = (c - k) + j
    BY <1>6, <1>7
  <2>2. y + (((c - k) + j) - c) = y + j - k
    BY <1>5 DEF c
  <2> QED BY <2>1, <2>2
<1> HIDE DEF x
<1>10. y \in 0 .. c
  BY DEF c
<1>11. x \in 0 .. n-1
  BY <1>5, <1>6, <1>7, <1>8, <1>9, <1>10
<1>12. MainScreen(b)[x] = IF x < j THEN a.scrollback[r - j + 1 + x]
                          ELSE IF x < j + h THEN MainScreen(a)[x - j]
                          ELSE BlankLine
  BY <1>7, <1>11 DEF TallerScreen, r
<1>13. CASE y < k
  <2> DEFINE i == r - j + 1 + x
  <2>1. x < j /\ i \in 1 .. r /\ i + ((l + k) - r) = l + 1 + y
    BY <1>5, <1>8, <1>9, <1>10, <1>13
  <2> HIDE DEF i
  <2>2. a.scrollback[i] = IF i + ((l + k) - r) <= l THEN t.scrollback[i + ((l + k) - r)]
                          ELSE s[(i + ((l + k) - r)) - l - 1]
    BY <1>6, <2>1 DEF IsPushed, l, r
  <2>3. ~(l + 1 + y <= l) /\ (l + 1 + y) - l - 1 = y
    BY <1>5, <1>10
  <2>4. a.scrollback[i] = s[y]
    BY <2>1, <2>2, <2>3
  <2> QED BY <1>5, <1>11, <1>12, <2>1, <2>4 DEF a, b, c, s, i, x
<1>14. CASE ~(y < k)
  <2>1. ~(x < j) /\ x < j + h /\ x - j = y - k /\ y - k \in 0 .. h-1 /\ (y - k) + k = y
    BY <1>5, <1>6, <1>8, <1>9, <1>10, <1>14
  <2>2. MainScreen(a)[y - k] = s[(y - k) + k]
    BY <1>6, <2>1 DEF ShorterScreen
  <2>3. MainScreen(b)[x] = s[y]
    BY <1>12, <2>1, <2>2
  <2> QED BY <1>5, <1>11, <2>3 DEF a, b, c, s, x
<1> QED BY <1>13, <1>14

(* A window made shorter and given its size back shows the line under the cursor,
   and every line above it, where it was in relation to the cursor, as long as the
   scrollback had room for the rows that were pushed off. *)
THEOREM ResizingRoundTrip == Spec => []RoundTripKeepsLines
<1>1. ASSUME IInv PROVE RoundTripKeepsLines
  <2> DEFINE n == term.rows
  <2>1. /\ cfg \in Configs /\ n \in Nat /\ Stored(term, n)
        /\ \A h \in Heights : h \in Nat /\ h >= 1
    BY <1>1, CfgFacts DEF IInv
  <2>2. Primary(term) = swap_screen(deselect(term), 0, FALSE, FALSE)
    BY DEF Primary, Shown
  <2>3. ASSUME NEW h \in Heights, h < n, Pushed(Primary(term), n - h) <= SaveLines,
               NEW y \in 0 .. MainCursor(term)
        PROVE  LET after == Resized(Resized(term, h), n)
                   x     == y + (MainCursor(after) - MainCursor(term))
               IN  /\ x \in Rows(after)
                   /\ MainScreen(after)[x] = MainScreen(term)[y]
    <3> HIDE DEF n
    <3> QED BY <2>1, <2>3, RoundTripFacts DEF Rows
  <2> QED BY <2>2, <2>3 DEF RoundTripKeepsLines
<1> QED BY <1>1, AlwaysInvariant, PTL

-----------------------------------------------------------------------------
(* What an erase has thrown away never shows again, and a selection follows its
   text. *)

(* Nothing in E is on the primary screen or among the lines that may be taken
   back onto it. *)
Unerased(t, E) ==
    /\ \A i \in 0 .. t.rows - 1 : MainScreen(t)[i].text \notin E
    /\ \A i \in 1 .. Len(t.scrollback) :
          i > Len(t.scrollback) - t.tempsblines => t.scrollback[i].text \notin E

(* The alternate screen has nothing that was written on the primary one: a reset
   makes a primary screen of it. *)
AltOnly(t) == \A i \in 0 .. t.rows - 1 : AltScreen(t)[i].text \notin Text

Apart(t, E) == Unerased(t, E) /\ AltOnly(t)

(* The inductive invariant. *)
TInv == IInv /\ Apart(term, erased)

(* Text x may be on the screen that shows. *)
Fits(t, E, x) == IF t.alt_which = 0 THEN x \notin E ELSE x \notin Text

-----------------------------------------------------------------------------
(* Each operator keeps erased text away from the primary screen. *)

(* A blank line has no text. *)
LEMMA BlankFits ==
    ASSUME cfg \in Configs, NEW E \in SUBSET Text, NEW t
    PROVE  Blank \notin E /\ Blank \notin Text /\ Fits(t, E, Blank)
BY CfgFacts DEF Fits

(* What is on the screen fits there. *)
LEMMA ScreenFits ==
    ASSUME NEW n \in Nat, NEW t, Stored(t, n), NEW E, Apart(t, E)
    PROVE  \A i \in 0 .. n-1 : Fits(t, E, t.screen[i].text)
<1>1. t.rows = n
  BY DEF Stored, Terminals
<1> QED BY <1>1 DEF Apart, Unerased, AltOnly, MainScreen, AltScreen, Fits

(* An operator that leaves the lines alone. *)
LEMMA SameTextApart ==
    ASSUME NEW t, NEW E, Apart(t, E), NEW u,
           u.rows = t.rows, u.alt_which = t.alt_which,
           u.screen = t.screen, u.alt_screen = t.alt_screen,
           u.scrollback = t.scrollback, u.tempsblines = t.tempsblines
    PROVE  Apart(u, E)
BY DEF Apart, Unerased, AltOnly, MainScreen, AltScreen

(* An operator that puts text on the screen which fits there. *)
LEMMA ScreenApart ==
    ASSUME cfg \in Configs, NEW n \in Nat, NEW t, Stored(t, n),
           NEW E \in SUBSET Text, Apart(t, E),
           NEW u, u.rows = n, u.alt_which = t.alt_which, u.alt_screen = t.alt_screen,
           u.scrollback = t.scrollback, u.tempsblines = t.tempsblines,
           \A i \in 0 .. n-1 : Fits(t, E, u.screen[i].text)
    PROVE  Apart(u, E)
<1>1. t.rows = n /\ t.alt_which \in {0, 1}
  BY DEF Stored, Terminals
<1>2. \A i \in 1 .. Len(u.scrollback) :
         i > Len(u.scrollback) - u.tempsblines => u.scrollback[i].text \notin E
  BY DEF Apart, Unerased
<1>3. \A i \in 0 .. n-1 : MainScreen(u)[i].text \notin E
  BY <1>1 DEF Apart, Unerased, MainScreen, Fits
<1>4. \A i \in 0 .. n-1 : AltScreen(u)[i].text \notin Text
  BY <1>1 DEF Apart, AltOnly, AltScreen, Fits
<1> QED BY <1>2, <1>3, <1>4 DEF Apart, Unerased, AltOnly

(* A line of the scrollback that may be taken back, when lines have entered it:
   an old one that might be taken back before, one that was on the screen, or a
   blank one. *)
TailLine(t, n, line) ==
    \/ \E j \in 1 .. Len(t.scrollback) :
          j > Len(t.scrollback) - t.tempsblines /\ line = t.scrollback[j]
    \/ \E y \in 0 .. n-1 : line = t.screen[y]
    \/ line = BlankLine

(* Where the i-th of the S newest of r + k lines comes from, when it is among
   the last m + k of those that had room. *)
LEMMA TailIndex ==
    ASSUME NEW r \in Nat, NEW k \in Nat, NEW S \in Nat, NEW m \in Nat, r <= S, m <= r,
           NEW i \in Nat, i >= 1, i <= Lesser(r + k, S),
           i > Lesser(r + k, S) - (m + Lesser(k, S - r))
    PROVE  /\ i + (r + k) - Lesser(r + k, S) \in 1 .. r + k
           /\ i + (r + k) - Lesser(r + k, S) > r - m
BY DEF Lesser

(* The lines that leave the screen join those that may be taken back; lines that
   could not be taken back before cannot be taken back now. *)
LEMMA SavedTail ==
    ASSUME cfg \in Configs, NEW n \in Nat, NEW t, Stored(t, n),
           NEW top \in Nat, NEW bot \in 0 .. n-1, NEW k \in Nat, NEW sb,
           sb /\ SaveLines > 0,
           NEW i \in Nat, i >= 1, i <= Len(SavedLines(t, top, bot, k, sb)),
           i > Len(SavedLines(t, top, bot, k, sb)) - SavedCount(t, k, sb)
    PROVE  TailLine(t, n, SavedLines(t, top, bot, k, sb)[i])
<1> DEFINE l == LeavingLines(t, top, bot, k)
           c == t.scrollback \o l
           s == SavedLines(t, top, bot, k, sb)
           r == Len(t.scrollback)
           m == t.tempsblines
           j == i + (r + k) - Lesser(r + k, SaveLines)
<1>1. /\ t.scrollback \in Seq(Line) /\ r \in Nat /\ r <= SaveLines
      /\ m \in Nat /\ m <= r /\ SaveLines \in Nat
  BY CfgFacts, LenProperties DEF Stored, Terminals
<1>2. l \in Seq(Line) /\ Len(l) = k
  BY LeavingLinesType
<1>3. \A h \in 1 .. k : l[h] = IF top + h - 1 <= bot THEN t.screen[top + h - 1] ELSE BlankLine
  BY LeavingLinesType
<1>4. c \in Seq(Line) /\ Len(c) = r + k
  <2>1. t.scrollback \in Seq(Line)
    BY <1>1
  <2> HIDE DEF l
  <2>2. /\ t.scrollback \o l \in Seq(Line)
        /\ Len(t.scrollback \o l) = Len(t.scrollback) + Len(l)
    BY <2>1, <1>2, ConcatProperties
  <2> QED BY <1>2, <2>2
<1>5. \A h \in 1 .. r + k : c[h] = IF h <= r THEN t.scrollback[h] ELSE l[h - r]
  BY <1>1, <1>2, ConcatProperties
<1>6. s = Newest(c, SaveLines)
  BY DEF SavedLines
<1>7. SavedCount(t, k, sb) = m + Lesser(k, SaveLines - r)
  BY DEF SavedCount, TempLinesAfter
<1> HIDE DEF l, c, s
<1>8. Len(s) = Lesser(r + k, SaveLines)
  BY <1>1, <1>4, <1>6, NewestFacts
<1>9. \A h \in 1 .. Len(s) : s[h] = c[h + Len(c) - Len(s)]
  BY <1>1, <1>4, <1>6, NewestFacts
<1>10. i <= Len(s) /\ i > Len(s) - SavedCount(t, k, sb)
  BY DEF s
<1> HIDE DEF r, m
<1>11. j \in 1 .. r + k /\ j > r - m
  BY <1>1, <1>7, <1>8, <1>10, TailIndex
<1>12. s[i] = c[j]
  <2>1. i \in 1 .. Len(s) /\ i + Len(c) - Len(s) = j
    BY <1>1, <1>4, <1>8, <1>10
  <2> QED BY <1>9, <2>1
<1> HIDE DEF j
<1>13. CASE j <= r
  <2>1. s[i] = t.scrollback[j] /\ j \in 1 .. r
    BY <1>1, <1>5, <1>11, <1>12, <1>13
  <2> QED BY <1>11, <2>1 DEF TailLine, r, m, s
<1>14. CASE ~(j <= r)
  <2>1. j - r \in 1 .. k
    BY <1>1, <1>11, <1>14
  <2>2. s[i] = l[j - r]
    BY <1>5, <1>11, <1>12, <1>14
  <2>3. \/ s[i] = BlankLine
        \/ top + (j - r) - 1 <= bot /\ s[i] = t.screen[top + (j - r) - 1]
    BY <1>3, <2>1, <2>2
  <2>4. top + (j - r) - 1 <= bot => top + (j - r) - 1 \in 0 .. n-1
    BY <2>1
  <2> QED BY <2>3, <2>4 DEF TailLine, s
<1> QED BY <1>13, <1>14

(* What enters the lines that may be taken back comes off the primary screen. *)
LEMMA TailFits ==
    ASSUME cfg \in Configs, NEW n \in Nat, NEW t, Stored(t, n),
           NEW E \in SUBSET Text, Unerased(t, E), t.alt_which = 0,
           NEW line, TailLine(t, n, line)
    PROVE  line.text \notin E
<1>1. t.rows = n /\ MainScreen(t) = t.screen
  BY DEF Stored, Terminals, MainScreen
<1>2. BlankLine.text \notin E
  BY BlankFits DEF BlankLine
<1> QED BY <1>1, <1>2 DEF TailLine, Unerased

(* The rows that scroll bring nothing that was not on the screen. *)
LEMMA ScrolledFits ==
    ASSUME cfg \in Configs, NEW n \in Nat, NEW t, Stored(t, n),
           NEW E \in SUBSET Text, Apart(t, E),
           NEW top \in Nat, NEW bot \in 0 .. n-1, NEW k \in Int, NEW i \in 0 .. n-1
    PROVE  Fits(t, E, ScrolledRows(t, top, bot, k)[i].text)
<1>1. t.rows = n
  BY DEF Stored, Terminals
<1>2. \A j \in 0 .. n-1 : Fits(t, E, t.screen[j].text)
  BY ScreenFits
<1>3. Fits(t, E, BlankLine.text)
  BY BlankFits DEF BlankLine
<1>4. ScrolledRows(t, top, bot, k)[i] =
         IF i < top \/ i > bot THEN t.screen[i]
         ELSE IF top <= i + k /\ i + k <= bot THEN t.screen[i + k]
         ELSE BlankLine
  BY <1>1 DEF ScrolledRows
<1>5. CASE i < top \/ i > bot
  BY <1>2, <1>4, <1>5
<1>6. CASE ~(i < top \/ i > bot) /\ top <= i + k /\ i + k <= bot
  <2>1. i + k \in 0 .. n-1
    BY <1>6
  <2>2. ScrolledRows(t, top, bot, k)[i] = t.screen[i + k]
    BY <1>4, <1>6
  <2> QED BY <1>2, <2>1, <2>2
<1>7. CASE ~(i < top \/ i > bot) /\ ~(top <= i + k /\ i + k <= bot)
  BY <1>3, <1>4, <1>7
<1> QED BY <1>5, <1>6, <1>7

(* Rows scroll up; only those of the primary screen are kept. *)
LEMMA ScrollUpApart ==
    ASSUME cfg \in Configs, NEW n \in Nat, NEW t, Stored(t, n),
           NEW E \in SUBSET Text, Apart(t, E),
           NEW top \in Nat, NEW bot \in 0 .. n-1, NEW k \in Nat,
           NEW sb, sb => t.alt_which = 0
    PROVE  Apart(ScrollUp(t, top, bot, k, sb), E)
<1> DEFINE u == ScrollUp(t, top, bot, k, sb)
           s == SavedLines(t, top, bot, k, sb)
           c == SavedCount(t, k, sb)
<1>1. /\ Stored(u, n) /\ SameScreens(u, t)
      /\ u.screen = ScrolledRows(t, top, bot, k)
      /\ u.scrollback = s /\ u.tempsblines = c
  BY ScrollUpFacts
<1> HIDE DEF u
<1>2. t.rows = n /\ u.rows = n
  BY <1>1 DEF Stored, Terminals
<1>3. \A i \in 0 .. n-1 : Fits(t, E, u.screen[i].text)
  <2>1. TAKE i \in 0 .. n-1
  <2>2. k \in Int
    OBVIOUS
  <2> QED BY <1>1, <2>2, ScrolledFits
<1>4. CASE sb /\ SaveLines > 0
  <2>1. t.alt_which = 0 /\ Unerased(t, E)
    BY <1>4 DEF Apart
  <2>2. ASSUME NEW i \in 1 .. Len(s), i > Len(s) - c
        PROVE  s[i].text \notin E
    <3>1. i \in Nat /\ i >= 1 /\ i <= Len(s)
      BY <1>1 DEF Stored, Terminals
    <3>2. TailLine(t, n, s[i])
      BY <1>4, <2>2, <3>1, SavedTail
    <3> HIDE DEF s, c
    <3> QED BY <2>1, <3>2, TailFits
  <2> HIDE DEF s, c
  <2>3. \A i \in 0 .. n-1 : MainScreen(u)[i].text \notin E /\ AltScreen(u)[i].text \notin Text
    BY <1>1, <1>2, <1>3, <2>1 DEF Fits, MainScreen, AltScreen, SameScreens, Apart, AltOnly
  <2>4. Apart(u, E)
    BY <1>1, <1>2, <2>2, <2>3 DEF Apart, Unerased, AltOnly
  <2> QED BY <2>4 DEF u
<1>5. CASE ~(sb /\ SaveLines > 0)
  <2>1. u.scrollback = t.scrollback /\ u.tempsblines = t.tempsblines
    BY <1>1, <1>5 DEF SavedLines, SavedCount
  <2>2. u.rows = n /\ u.alt_which = t.alt_which /\ u.alt_screen = t.alt_screen
    BY <1>1, <1>2 DEF SameScreens
  <2>3. Apart(u, E)
    BY <1>3, <2>1, <2>2, ScreenApart
  <2> QED BY <2>3 DEF u
<1> QED BY <1>4, <1>5 DEF u

(* And down, which keeps nothing. *)
LEMMA ScrollDownApart ==
    ASSUME cfg \in Configs, NEW n \in Nat, NEW t, Stored(t, n),
           NEW E \in SUBSET Text, Apart(t, E),
           NEW top \in Nat, NEW bot \in 0 .. n-1, NEW k \in Nat
    PROVE  Apart(ScrollDown(t, top, bot, k), E)
<1> DEFINE u == ScrollDown(t, top, bot, k)
<1>1. PICK j \in Int : j = -k
  OBVIOUS
<1>2. /\ SameScreens(u, t) /\ u.screen = ScrolledRows(t, top, bot, j)
      /\ u.scrollback = t.scrollback /\ u.tempsblines = t.tempsblines
  <2>1. /\ SameScreens(u, t) /\ u.screen = ScrolledRows(t, top, bot, -k)
        /\ u.scrollback = t.scrollback /\ u.tempsblines = t.tempsblines
    BY ScrollDownFacts
  <2> QED BY <1>1, <2>1
<1> HIDE DEF u
<1>3. \A i \in 0 .. n-1 : Fits(t, E, u.screen[i].text)
  BY <1>2, ScrolledFits
<1>4. u.rows = n /\ u.alt_which = t.alt_which /\ u.alt_screen = t.alt_screen
  BY <1>2 DEF SameScreens, Stored, Terminals
<1>5. Apart(u, E)
  BY <1>2, <1>3, <1>4, ScreenApart
<1> QED BY <1>5 DEF u

(* A region scrolls, either way. *)
LEMMA ScrollApart ==
    ASSUME cfg \in Configs, NEW n \in Nat, NEW t, Stored(t, n),
           NEW E \in SUBSET Text, Apart(t, E),
           NEW top \in Nat, NEW bot \in 0 .. n-1, NEW k \in Int
    PROVE  /\ Apart(scroll(t, top, bot, k, TRUE), E)
           /\ Apart(scroll(t, top, bot, k, FALSE), E)
<1>1. ASSUME NEW sb PROVE Apart(scroll(t, top, bot, k, sb), E)
  <2>1. CASE k < 0
    <3>1. PICK j \in Nat : j = -k
      BY <2>1
    <3>2. scroll(t, top, bot, k, sb) = ScrollDown(t, top, bot, j)
      BY <2>1, <3>1 DEF scroll
    <3> QED BY <3>2, ScrollDownApart
  <2>2. CASE ~(k < 0)
    <3>1. PICK b \in BOOLEAN : b <=> (sb /\ top = 0 /\ t.alt_which = 0)
      OBVIOUS
    <3>2. k \in Nat /\ (b => t.alt_which = 0)
      BY <2>2, <3>1
    <3>3. scroll(t, top, bot, k, sb) = ScrollUp(t, top, bot, k, b)
      BY <2>2, <3>1 DEF scroll
    <3> QED BY <3>2, <3>3, ScrollUpApart
  <2> QED BY <2>1, <2>2
<1> QED BY <1>1, Zenon
(* The cursor moves, or text that fits is put on the screen. *)
LEMMA CursorApart ==
    ASSUME NEW n \in Nat, NEW t, Stored(t, n), NEW E, Apart(t, E), NEW y \in 0 .. n-1
    PROVE  Apart([t EXCEPT !.cursy = y], E)
<1> DEFINE u == [t EXCEPT !.cursy = y]
<1>1. /\ u.rows = t.rows /\ u.alt_which = t.alt_which
      /\ u.screen = t.screen /\ u.alt_screen = t.alt_screen
      /\ u.scrollback = t.scrollback /\ u.tempsblines = t.tempsblines
  BY WithCursorFacts
<1> HIDE DEF u
<1>2. Apart(u, E)
  BY <1>1, SameTextApart
<1> QED BY <1>2 DEF u

(* Text that fits is put on the screen. *)
LEMMA WithScreenApart ==
    ASSUME cfg \in Configs, NEW n \in Nat, NEW t, Stored(t, n),
           NEW E \in SUBSET Text, Apart(t, E),
           NEW s \in [0 .. n-1 -> Line], \A i \in 0 .. n-1 : Fits(t, E, s[i].text)
    PROVE  Apart(WithScreen(t, s), E)
<1> DEFINE u == WithScreen(t, s)
<1>1. /\ Stored(u, n) /\ SameFrame(u, t) /\ u.screen = s
      /\ u.scrollback = t.scrollback /\ u.tempsblines = t.tempsblines
  BY WithScreenFacts
<1> HIDE DEF u
<1>2. u.rows = n /\ u.alt_which = t.alt_which /\ u.alt_screen = t.alt_screen
  BY <1>1 DEF SameFrame, Stored, Terminals
<1>3. \A i \in 0 .. n-1 : Fits(t, E, u.screen[i].text)
  BY <1>1
<1>4. Apart(u, E)
  BY <1>1, <1>2, <1>3, ScreenApart
<1> QED BY <1>4 DEF u

(* LF and its kind. *)
LEMMA LineFeedApart ==
    ASSUME cfg \in Configs, NEW n \in Nat, NEW t, Stored(t, n),
           NEW E \in SUBSET Text, Apart(t, E)
    PROVE  Apart(LineFeedOf(t), E)
<1>1. /\ t.rows = n /\ t.cursy \in 0 .. n-1
      /\ t.marg_t \in 0 .. n-1 /\ t.marg_b \in 0 .. n-1
  BY DEF Stored, Terminals
<1>2. CASE t.cursy = t.marg_b
  <2>1. PICK k \in Int, top \in Nat, bot \in 0 .. n-1 :
            k = 1 /\ top = t.marg_t /\ bot = t.marg_b
    BY <1>1
  <2>2. Apart(scroll(t, top, bot, k, TRUE), E)
    BY ScrollApart
  <2> QED BY <1>2, <2>1, <2>2 DEF LineFeedOf
<1>3. CASE t.cursy # t.marg_b /\ t.cursy < t.rows - 1
  <2>1. PICK y \in 0 .. n-1 : y = t.cursy + 1
    BY <1>1, <1>3
  <2>2. Apart([t EXCEPT !.cursy = y], E)
    BY CursorApart
  <2> QED BY <1>3, <2>1, <2>2 DEF LineFeedOf
<1>4. CASE t.cursy # t.marg_b /\ ~(t.cursy < t.rows - 1)
  BY <1>4 DEF LineFeedOf
<1> QED BY <1>2, <1>3, <1>4

(* RI, within whatever region of the screen. *)
LEMMA ReverseIndexApart ==
    ASSUME cfg \in Configs, NEW n \in Nat, NEW t, Stored(t, n),
           NEW E \in SUBSET Text, Apart(t, E), NEW top \in Nat, NEW bot \in 0 .. n-1
    PROVE  Apart(ReverseIndexOf(t, top, bot), E)
<1>1. t.cursy \in 0 .. n-1
  BY DEF Stored, Terminals
<1>2. CASE t.cursy = top
  <2>1. PICK k \in Int : k = -1
    OBVIOUS
  <2>2. Apart(scroll(t, top, bot, k, TRUE), E)
    BY ScrollApart
  <2> QED BY <1>2, <2>1, <2>2 DEF ReverseIndexOf
<1>3. CASE t.cursy # top /\ t.cursy > 0
  <2>1. PICK y \in 0 .. n-1 : y = t.cursy - 1
    BY <1>1, <1>3
  <2>2. Apart([t EXCEPT !.cursy = y], E)
    BY CursorApart
  <2> QED BY <1>3, <2>1, <2>2 DEF ReverseIndexOf
<1>4. CASE t.cursy # top /\ ~(t.cursy > 0)
  BY <1>4 DEF ReverseIndexOf
<1> QED BY <1>2, <1>3, <1>4

(* The wrap at the right-hand edge. *)
LEMMA WrapApart ==
    ASSUME cfg \in Configs, NEW n \in Nat, NEW t, Stored(t, n),
           NEW E \in SUBSET Text, Apart(t, E)
    PROVE  Apart(WrapOf(t), E)
<1> DEFINE s == WrapMarked(t)
           v == WithScreen(t, s)
<1>1. s \in [0 .. n-1 -> Line] /\ WrapOf(t) = LineFeedOf(v)
  BY WrapMarkedFacts
<1>2. \A i \in 0 .. n-1 : s[i].text = t.screen[i].text
  BY WrapMarkedFacts
<1> HIDE DEF s
<1>3. \A i \in 0 .. n-1 : Fits(t, E, s[i].text)
  <2>1. \A i \in 0 .. n-1 : Fits(t, E, t.screen[i].text)
    BY ScreenFits
  <2> QED BY <1>2, <2>1
<1>4. Apart(v, E)
  BY <1>1, <1>3, WithScreenApart
<1>5. Stored(v, n)
  BY <1>1, WithScreenFacts
<1> HIDE DEF v
<1>6. Apart(LineFeedOf(v), E)
  BY <1>4, <1>5, LineFeedApart
<1> QED BY <1>1, <1>6

(* A change of the selection. *)
LEMMA SameLinesApart ==
    ASSUME NEW t, NEW E, Apart(t, E), NEW u, SameLines(u, t)
    PROVE  Apart(u, E)
BY SameTextApart DEF SameLines

(* Text x on the cursor's row. *)
LEMMA PutApart ==
    ASSUME cfg \in Configs, NEW n \in Nat, NEW t, Stored(t, n),
           NEW E \in SUBSET Text, Apart(t, E),
           NEW x \in Labels, Fits(t, E, x), NEW shared
    PROVE  Apart(PutOf(t, x, shared), E)
<1>1. PICK u : /\ Stored(u, n) /\ SameLines(u, t)
               /\ Written(u, x) \in [0 .. n-1 -> Line]
               /\ \A i \in 0 .. n-1 : Written(u, x)[i].text \in {t.screen[i].text, x}
               /\ PutOf(t, x, shared) = WithScreen(u, Written(u, x))
  BY WrittenFacts
<1>2. Apart(u, E)
  BY <1>1, SameLinesApart
<1>3. \A i \in 0 .. n-1 : Fits(t, E, t.screen[i].text)
  BY ScreenFits
<1>4. \A i \in 0 .. n-1 : Fits(u, E, Written(u, x)[i].text)
  BY <1>1, <1>3 DEF Fits, SameLines
<1>5. Apart(WithScreen(u, Written(u, x)), E)
  BY <1>1, <1>2, <1>4, WithScreenApart
<1> QED BY <1>1, <1>5

(* What may be written fits. *)
LEMMA WritableFits ==
    ASSUME IInv, NEW x \in WritableText(term)
    PROVE  x \in Labels /\ Fits(term, erased, x)
BY CfgFacts DEF IInv, WritableText, Fits

-----------------------------------------------------------------------------
(* Each action does. *)

(* The actions that print and move lines, which erase nothing for good. *)
LEMMA PrintingApart ==
    ASSUME TInv,
           MoveRow \/ LineFeed \/ ReverseIndex \/ GraphicChar
              \/ ScrollRegion \/ InsertLines \/ DeleteLines
    PROVE  Apart(term', erased')
<1> DEFINE n == term.rows
<1>1. /\ cfg \in Configs /\ n \in Heights /\ n \in Nat /\ n >= 1 /\ IInv
      /\ Stored(term, n) /\ erased \in SUBSET Text /\ Apart(term, erased)
  BY CfgFacts DEF IInv, TInv
<1>2. /\ term.cursy \in 0 .. n-1 /\ term.marg_t \in 0 .. n-1 /\ term.marg_b \in 0 .. n-1
      /\ term.alt_which \in {0, 1}
  BY <1>1 DEF Stored, Terminals
<1> HIDE DEF n
<1>3. erased' = erased
  BY DEF MoveRow, LineFeed, ReverseIndex, GraphicChar, ScrollRegion, InsertLines,
         DeleteLines
<1> SUFFICES Apart(term', erased)
  BY <1>3
<1>4. CASE MoveRow
  <2>1. PICK y \in 0 .. n-1 : term' = [term EXCEPT !.cursy = y]
    BY <1>4 DEF MoveRow, Output, n
  <2> QED BY <1>1, <2>1, CursorApart
<1>5. CASE LineFeed
  BY <1>1, <1>5, LineFeedApart DEF LineFeed, Output
<1>6. CASE ReverseIndex
  <2>1. PICK top \in Nat, bot \in 0 .. n-1 : term' = ReverseIndexOf(term, top, bot)
    <3>1. term.marg_t \in Nat /\ 0 \in Nat /\ n - 1 \in 0 .. n-1
      BY <1>1, <1>2
    <3> QED BY <1>2, <1>6, <3>1 DEF ReverseIndex, Output, n
  <2> QED BY <1>1, <2>1, ReverseIndexApart
<1>7. CASE GraphicChar
  <2>1. PICK x \in WritableText(term), shared \in Sharing :
           \/ term' = PutOf(term, x, shared)
           \/ term' = PutOf(WrapOf(term), x, shared)
           \/ term' = WrapOf(PutOf(term, x, shared))
           \/ term' = WrapOf(PutOf(WrapOf(term), x, shared))
    BY <1>7 DEF GraphicChar, Output
  <2>2. x \in Labels /\ Fits(term, erased, x)
    BY <1>1, WritableFits
  <2> DEFINE w == WrapOf(term)
             p == PutOf(term, x, shared)
             wp == PutOf(w, x, shared)
  <2>3. Stored(w, n) /\ Apart(w, erased) /\ Fits(w, erased, x)
    <3>1. IsOutput(w, term, n)
      BY <1>1, WrapOutput
    <3>2. Apart(w, erased)
      BY <1>1, WrapApart
    <3> HIDE DEF w
    <3> QED BY <2>2, <3>1, <3>2 DEF IsOutput, Fits
  <2>4. Stored(p, n) /\ Apart(p, erased)
    <3>1. IsOutput(p, term, n)
      BY <1>1, <2>2, PutOutput
    <3>2. Apart(p, erased)
      BY <1>1, <2>2, PutApart
    <3> HIDE DEF p
    <3> QED BY <3>1, <3>2 DEF IsOutput
  <2>5. Stored(wp, n) /\ Apart(wp, erased)
    <3> HIDE DEF w
    <3>1. IsOutput(wp, w, n)
      BY <1>1, <2>2, <2>3, PutOutput
    <3>2. Apart(wp, erased)
      BY <1>1, <2>2, <2>3, PutApart
    <3> HIDE DEF wp
    <3> QED BY <3>1, <3>2 DEF IsOutput
  <2>6. Apart(WrapOf(p), erased)
    <3> HIDE DEF p
    <3> QED BY <1>1, <2>4, WrapApart
  <2>7. Apart(WrapOf(wp), erased)
    <3> HIDE DEF wp
    <3> QED BY <1>1, <2>5, WrapApart
  <2> QED BY <2>1, <2>4, <2>5, <2>6, <2>7
<1>8. CASE ScrollRegion
  <2>0. PICK k \in (-MaxCount .. MaxCount) \ {0} :
           term' = scroll(term, term.marg_t, term.marg_b, k, TRUE)
    BY <1>8 DEF ScrollRegion, Output
  <2>1. k \in Int
    BY <1>1, CfgFacts
  <2>2. PICK top \in Nat, bot \in 0 .. n-1 : top = term.marg_t /\ bot = term.marg_b
    BY <1>2
  <2>3. Apart(scroll(term, top, bot, k, TRUE), erased)
    BY <1>1, <2>1, ScrollApart
  <2> QED BY <2>0, <2>2, <2>3
<1>9. CASE InsertLines
  <2>1. PICK j \in 1 .. MaxCount : term' = scroll(term, term.cursy, term.marg_b, -j, FALSE)
    BY <1>9 DEF InsertLines, Output
  <2>2. PICK top \in Nat, bot \in 0 .. n-1, k \in Int :
           top = term.cursy /\ bot = term.marg_b /\ k = -j
    BY <1>1, <1>2, CfgFacts
  <2>3. Apart(scroll(term, top, bot, k, FALSE), erased)
    BY <1>1, ScrollApart
  <2> QED BY <2>1, <2>2, <2>3
<1>10. CASE DeleteLines
  <2>1. PICK j \in 1 .. MaxCount : term' = scroll(term, term.cursy, term.marg_b, j, TRUE)
    BY <1>10 DEF DeleteLines, Output
  <2>2. PICK top \in Nat, bot \in 0 .. n-1, k \in Int :
           top = term.cursy /\ bot = term.marg_b /\ k = j
    BY <1>1, <1>2, CfgFacts
  <2>3. Apart(scroll(term, top, bot, k, TRUE), erased)
    BY <1>1, ScrollApart
  <2> QED BY <2>1, <2>2, <2>3
<1> QED BY <1>4, <1>5, <1>6, <1>7, <1>8, <1>9, <1>10

(* A blank primary screen onto which no line can be taken back has no text. *)
LEMMA BlankApart ==
    ASSUME cfg \in Configs, NEW n \in Nat, NEW u, Stored(u, n),
           BlankRows(u), u.alt_which = 0, u.tempsblines = 0, AltOnly(u),
           NEW F \in SUBSET Text
    PROVE  Apart(u, F)
<1>1. Len(u.scrollback) \in Nat
  BY LenProperties DEF Stored, Terminals
<1>2. \A i \in 1 .. Len(u.scrollback) : ~(i > Len(u.scrollback) - u.tempsblines)
  BY <1>1
<1>3. Blank \notin F
  BY BlankFits
<1> QED BY <1>2, <1>3 DEF Apart, Unerased, BlankRows, MainScreen

(* An erase of the whole primary screen throws away all that was there, so that F
   may be any text; any other erase only makes lines blank. *)
LEMMA EraseScreenApart ==
    ASSUME cfg \in Configs, NEW n \in Nat, NEW t, Stored(t, n),
           NEW E \in SUBSET Text, Apart(t, E),
           NEW from_begin, NEW to_end, NEW home, NEW kept, NEW shared,
           NEW F \in SUBSET Text,
           F = E \/ (Whole(t, from_begin, to_end, home) /\ t.alt_which = 0)
    PROVE  Apart(EraseScreen(t, from_begin, to_end, home, kept, shared), F)
<1> DEFINE u == EraseScreen(t, from_begin, to_end, home, kept, shared)
           whole == Whole(t, from_begin, to_end, home)
<1>1. /\ Stored(u, n) /\ SameFrame(u, t)
      /\ t.alt_which = 1 \/ ~whole => /\ u.scrollback = t.scrollback
                                     /\ u.tempsblines = t.tempsblines
      /\ whole => BlankRows(u) /\ (t.alt_which = 0 => u.tempsblines = 0)
      /\ ~whole => \A i \in 0 .. n-1 : u.screen[i].text \in {t.screen[i].text, Blank}
  BY EraseScreenFacts
<1> HIDE DEF u, whole
<1>2. /\ t.rows = n /\ u.rows = n /\ t.alt_which \in {0, 1}
      /\ u.alt_which = t.alt_which /\ u.alt_screen = t.alt_screen
  BY <1>1 DEF Stored, Terminals, SameFrame
<1>3. \A i \in 0 .. n-1 : Fits(t, E, t.screen[i].text)
  BY ScreenFits
<1>4. Fits(t, E, Blank)
  BY BlankFits
<1>5. \A i \in 0 .. n-1 : Fits(t, E, u.screen[i].text)
  BY <1>1, <1>2, <1>3, <1>4 DEF BlankRows
<1>6. CASE whole /\ t.alt_which = 0
  <2>1. BlankRows(u) /\ u.alt_which = 0 /\ u.tempsblines = 0
    BY <1>1, <1>2, <1>6
  <2>2. AltOnly(u)
    BY <1>2, <1>6 DEF Apart, AltOnly, AltScreen
  <2>3. Apart(u, F)
    BY <1>1, <2>1, <2>2, BlankApart
  <2> QED BY <2>3 DEF u
<1>7. CASE ~(whole /\ t.alt_which = 0)
  <2>1. F = E /\ u.scrollback = t.scrollback /\ u.tempsblines = t.tempsblines
    BY <1>1, <1>2, <1>7 DEF whole
  <2>2. Apart(u, E)
    BY <1>2, <1>5, <2>1, ScreenApart
  <2> QED BY <2>1, <2>2 DEF u
<1> QED BY <1>6, <1>7

(* Erasing everything on the screen. *)
LEMMA EraseAllApart ==
    ASSUME cfg \in Configs, NEW n \in Nat, NEW t, Stored(t, n),
           NEW E \in SUBSET Text, Apart(t, E), NEW F \in SUBSET Text,
           F = E \/ t.alt_which = 0
    PROVE  Apart(EraseAll(t), F)
<1>1. PICK yes \in BOOLEAN, no \in BOOLEAN : yes = TRUE /\ no = FALSE
  OBVIOUS
<1>2. Whole(t, yes, yes, no)
  BY <1>1 DEF Whole
<1>3. Apart(EraseScreen(t, yes, yes, no, no, yes), F)
  BY <1>2, EraseScreenApart
<1>4. EraseAll(t) = EraseScreen(t, yes, yes, no, no, yes)
  BY <1>1, Zenon DEF EraseAll
<1> QED BY <1>3, <1>4

(* The cursor's row. *)
LEMMA EraseLineApart ==
    ASSUME cfg \in Configs, NEW n \in Nat, NEW t, Stored(t, n),
           NEW E \in SUBSET Text, Apart(t, E),
           NEW from_begin, NEW to_end, NEW kept, NEW shared
    PROVE  Apart(EraseLine(t, from_begin, to_end, kept, shared), E)
<1> DEFINE u == EraseLine(t, from_begin, to_end, kept, shared)
<1>1. /\ Stored(u, n) /\ SameFrame(u, t)
      /\ u.scrollback = t.scrollback /\ u.tempsblines = t.tempsblines
      /\ \A i \in 0 .. n-1 : u.screen[i].text \in {t.screen[i].text, Blank}
  BY EraseLineFacts
<1> HIDE DEF u
<1>2. u.rows = n /\ u.alt_which = t.alt_which /\ u.alt_screen = t.alt_screen
  BY <1>1 DEF Stored, Terminals, SameFrame
<1>3. \A i \in 0 .. n-1 : Fits(t, E, t.screen[i].text)
  BY ScreenFits
<1>4. Fits(t, E, Blank)
  BY BlankFits
<1>5. \A i \in 0 .. n-1 : Fits(t, E, u.screen[i].text)
  BY <1>1, <1>3, <1>4
<1>6. Apart(u, E)
  BY <1>1, <1>2, <1>5, ScreenApart
<1> QED BY <1>6 DEF u

(* The view returns to the bottom. *)
LEMMA BottomApart ==
    ASSUME NEW n \in Nat, NEW t, Stored(t, n), NEW E, Apart(t, E)
    PROVE  Apart(AtBottom(t), E)
<1> DEFINE u == AtBottom(t)
<1>1. /\ SameFrame(u, t) /\ u.screen = t.screen
      /\ u.scrollback = t.scrollback /\ u.tempsblines = t.tempsblines
  BY AtBottomFacts
<1> HIDE DEF u
<1>2. Apart(u, E)
  BY <1>1, SameTextApart DEF SameFrame
<1> QED BY <1>2 DEF u

(* The actions that erase. *)
LEMMA ErasingApart ==
    ASSUME TInv, EraseDisplay \/ EraseFromHome \/ EraseSavedLines \/ EraseInLine
    PROVE  Apart(term', erased')
<1> DEFINE n == term.rows
<1>1. /\ cfg \in Configs /\ n \in Nat /\ n >= 1
      /\ Stored(term, n) /\ erased \in SUBSET Text /\ Apart(term, erased)
  BY CfgFacts DEF IInv, TInv
<1> HIDE DEF n
<1>0. erased \union Recorded(term) \in SUBSET Text
  BY <1>1 DEF Recorded
<1>2. CASE EraseDisplay
  <2>1. PICK from_begin, to_end, home, kept, shared :
            /\ term' = AtBottom(EraseScreen(term, from_begin, to_end, home, kept, shared))
            /\ erased' = ErasedBy(Whole(term, from_begin, to_end, home))
    BY <1>2 DEF EraseDisplay, Output, AtBottom, Whole
  <2> DEFINE v == EraseScreen(term, from_begin, to_end, home, kept, shared)
  <2>2. PICK F \in SUBSET Text :
           /\ F = erased'
           /\ F = erased \/ (Whole(term, from_begin, to_end, home) /\ term.alt_which = 0)
    BY <1>0, <1>1, <2>1 DEF ErasedBy
  <2>3. Stored(v, n) /\ Apart(v, F)
    BY <1>1, <2>2, EraseScreenFacts, EraseScreenApart
  <2> HIDE DEF v
  <2>4. Apart(AtBottom(v), F)
    BY <1>1, <2>3, BottomApart
  <2> QED BY <2>1, <2>2, <2>4 DEF v
<1>3. CASE EraseFromHome
  <2>0. PICK z \in 0 .. n-1 : z = 0
    BY <1>1
  <2>1. PICK yes \in BOOLEAN, no \in BOOLEAN : yes = TRUE /\ no = FALSE
    OBVIOUS
  <2> DEFINE h == [term EXCEPT !.cursy = z]
  <2>2. PICK shared : term' = AtBottom(EraseScreen(h, no, yes, yes, no, shared))
    BY <1>3, <2>0, <2>1 DEF EraseFromHome, Output, AtBottom
  <2>3. Stored(h, n) /\ h.alt_which = term.alt_which /\ Apart(h, erased)
    BY <1>1, WithCursorFacts, CursorApart
  <2>4. h.cursy = 0
    BY <1>1, <2>0 DEF Stored, Terminals
  <2> HIDE DEF h
  <2>5. Whole(h, no, yes, yes)
    BY <2>1, <2>4 DEF Whole
  <2>6. PICK F \in SUBSET Text : F = erased' /\ (F = erased \/ h.alt_which = 0)
    BY <1>0, <1>1, <1>3, <2>3 DEF EraseFromHome, ErasedBy
  <2> DEFINE v == EraseScreen(h, no, yes, yes, no, shared)
  <2>7. Stored(v, n)
    BY <1>1, <2>3, EraseScreenFacts
  <2>8. Apart(v, F)
    BY <1>1, <2>3, <2>5, <2>6, EraseScreenApart
  <2> HIDE DEF v
  <2>9. Apart(AtBottom(v), F)
    BY <1>1, <2>7, <2>8, BottomApart
  <2> QED BY <2>2, <2>6, <2>9 DEF v
<1>4. CASE EraseSavedLines
  <2> DEFINE v == term_clrsb(term)
  <2>1. /\ Stored(v, n) /\ v.rows = term.rows /\ v.alt_which = term.alt_which
        /\ v.screen = term.screen /\ v.alt_screen = term.alt_screen
        /\ v.scrollback = <<>>
    BY <1>1, ClearFacts
  <2>2. term' = v /\ erased' = erased
    BY <1>4 DEF EraseSavedLines, Output
  <2> HIDE DEF v
  <2>3. Len(v.scrollback) = 0
    BY <2>1
  <2>4. Apart(v, erased)
    BY <1>1, <2>1, <2>3 DEF Apart, Unerased, AltOnly, MainScreen, AltScreen
  <2> QED BY <2>2, <2>4
<1>5. CASE EraseInLine
  <2>1. PICK from_begin, to_end, kept, shared :
            term' = EraseLine(term, from_begin, to_end, kept, shared)
    BY <1>5 DEF EraseInLine, Output
  <2>2. erased' = erased
    BY <1>5 DEF EraseInLine
  <2> QED BY <1>1, <2>1, <2>2, EraseLineApart
<1> QED BY <1>2, <1>3, <1>4, <1>5

(* The window is made taller: lines that may be taken back are. *)
LEMMA TallerApart ==
    ASSUME cfg \in Configs, NEW n \in Nat, NEW t, Stored(t, n), NEW m \in Nat, m >= n,
           NEW E \in SUBSET Text, Apart(t, E),
           NEW u, Stored(u, m), NEW k \in Nat, IsTaller(u, t, k, n, m)
    PROVE  Unerased(u, E)
<1> DEFINE sb == t.scrollback
           l == Len(sb)
           scr == MainScreen(t)
<1>1. /\ l \in Nat /\ t.tempsblines \in Nat /\ t.rows = n /\ u.rows = m
  BY LenProperties DEF Stored, Terminals
<1>2. /\ k <= t.tempsblines /\ k <= l
      /\ MainScreen(u) = TallerScreen(scr, sb, k, n, m)
      /\ IsOldest(u.scrollback, sb, l - k)
      /\ u.tempsblines = t.tempsblines - k
  BY DEF IsTaller
<1>3. \A i \in 1 .. l : i > l - t.tempsblines => sb[i].text \notin E
  BY DEF Apart, Unerased
<1>4. \A i \in 0 .. n-1 : scr[i].text \notin E
  BY <1>1 DEF Apart, Unerased
<1> HIDE DEF sb, scr
<1>5. ASSUME NEW i \in 0 .. m-1
      PROVE  TallerScreen(scr, sb, k, n, m)[i].text \notin E
  <2>1. TallerScreen(scr, sb, k, n, m)[i] =
           IF i < k THEN sb[l - k + 1 + i] ELSE IF i < k + n THEN scr[i - k] ELSE BlankLine
    BY DEF TallerScreen
  <2>2. CASE i < k
    <3>1. l - k + 1 + i \in 1 .. l /\ l - k + 1 + i > l - t.tempsblines
      BY <1>1, <1>2, <2>2
    <3> QED BY <1>3, <2>1, <2>2, <3>1
  <2>3. CASE ~(i < k) /\ i < k + n
    <3>1. i - k \in 0 .. n-1
      BY <2>3
    <3> QED BY <1>4, <2>1, <2>3, <3>1
  <2>4. CASE ~(i < k) /\ ~(i < k + n)
    <3>1. BlankLine.text \notin E
      BY BlankFits DEF BlankLine
    <3> QED BY <2>1, <2>4, <3>1
  <2> QED BY <2>2, <2>3, <2>4
<1>6. ASSUME NEW i \in 1 .. Len(u.scrollback), i > Len(u.scrollback) - u.tempsblines
      PROVE  u.scrollback[i].text \notin E
  <2>1. Len(u.scrollback) = l - k /\ u.scrollback[i] = sb[i]
    BY <1>2, <1>6 DEF IsOldest
  <2>2. i \in 1 .. l /\ i > l - t.tempsblines
    BY <1>1, <1>2, <1>6, <2>1
  <2> QED BY <1>3, <2>1, <2>2
<1> QED BY <1>1, <1>2, <1>5, <1>6 DEF Unerased

(* Or shorter: rows of the screen join the lines that may be taken back. *)
LEMMA ShorterApart ==
    ASSUME cfg \in Configs, NEW n \in Nat, NEW t, Stored(t, n), NEW m \in Nat, m < n,
           NEW E \in SUBSET Text, Apart(t, E),
           NEW u, Stored(u, m), NEW k \in Nat, IsShorter(u, t, k, n, m)
    PROVE  Unerased(u, E)
<1> DEFINE sb == t.scrollback
           l == Len(sb)
           scr == MainScreen(t)
           s == u.scrollback
           h == (l + k) - Len(s)
<1>1. /\ l \in Nat /\ t.tempsblines \in Nat /\ t.tempsblines <= l
      /\ t.rows = n /\ u.rows = m /\ SaveLines \in Nat
  BY CfgFacts, LenProperties DEF Stored, Terminals
<1>2. /\ k <= n - m
      /\ MainScreen(u) = ShorterScreen(scr, k, m)
      /\ Len(s) = Lesser(l + k, SaveLines)
      /\ IsPushed(s, sb, scr, k, h)
      /\ u.tempsblines = Lesser(t.tempsblines + k, Len(s))
  BY DEF IsShorter
<1>3. \A i \in 1 .. l : i > l - t.tempsblines => sb[i].text \notin E
  BY DEF Apart, Unerased
<1>4. \A i \in 0 .. n-1 : scr[i].text \notin E
  BY <1>1 DEF Apart, Unerased
<1>5. \A i \in 1 .. Len(s) : s[i] = IF i + h <= l THEN sb[i + h] ELSE scr[(i + h) - l - 1]
  BY <1>2 DEF IsPushed
<1> HIDE DEF sb, scr, s
<1>6. ASSUME NEW i \in 0 .. m-1
      PROVE  ShorterScreen(scr, k, m)[i].text \notin E
  <2>1. ShorterScreen(scr, k, m)[i] = scr[i + k] /\ i + k \in 0 .. n-1
    BY <1>2 DEF ShorterScreen
  <2> QED BY <1>4, <2>1
<1>7. ASSUME NEW i \in 1 .. Len(s), i > Len(s) - u.tempsblines
      PROVE  s[i].text \notin E
  <2>1. /\ Len(s) \in Nat /\ Len(s) <= l + k /\ h \in Nat
        /\ u.tempsblines <= t.tempsblines + k /\ u.tempsblines \in Nat
    BY <1>1, <1>2 DEF Lesser
  <2>2. i \in Nat /\ i >= 1 /\ i <= Len(s)
    BY <2>1
  <2>3. i + h \in 1 .. l + k /\ i + h > l - t.tempsblines
    BY <1>1, <1>7, <2>1, <2>2, SMTT(20)
  <2> HIDE DEF h
  <2>4. CASE i + h <= l
    <3>1. s[i] = sb[i + h] /\ i + h \in 1 .. l
      BY <1>1, <1>5, <2>3, <2>4
    <3> QED BY <1>3, <2>3, <3>1
  <2>5. CASE ~(i + h <= l)
    <3>1. s[i] = scr[(i + h) - l - 1]
      BY <1>5, <2>5
    <3>2. (i + h) - l - 1 \in 0 .. n-1
      BY <1>1, <1>2, <2>3, <2>5, SMTT(20)
    <3> QED BY <1>4, <3>1, <3>2
  <2> QED BY <2>4, <2>5
<1> QED BY <1>1, <1>2, <1>6, <1>7 DEF Unerased, s

(* A new number of rows. *)
LEMMA ResizedApart ==
    ASSUME cfg \in Configs, NEW n \in Nat, NEW t, Stored(t, n), NEW m \in Nat, m >= 1,
           NEW E \in SUBSET Text, Apart(t, E)
    PROVE  Apart(Resized(t, m), E)
<1> DEFINE u == Resized(t, m)
<1>1. /\ Stored(u, m) /\ AltScreen(u) = BlankScreen(m)
      /\ m >= n => \E k \in Nat : IsTaller(u, t, k, n, m)
      /\ m < n => \E k \in Nat : IsShorter(u, t, k, n, m)
  BY ResizedFacts
<1> HIDE DEF u
<1>2. u.rows = m
  BY <1>1 DEF Stored, Terminals
<1>3. Blank \notin Text
  BY CfgFacts
<1>4. AltOnly(u)
  BY <1>1, <1>2, <1>3 DEF AltOnly, BlankScreen, BlankLine
<1>5. CASE m >= n
  <2>1. PICK k \in Nat : IsTaller(u, t, k, n, m)
    BY <1>1, <1>5
  <2>2. Unerased(u, E)
    BY <1>1, <1>5, <2>1, TallerApart
  <2> QED BY <1>4, <2>2 DEF Apart, u
<1>6. CASE ~(m >= n)
  <2>1. m < n
    BY <1>6
  <2>2. PICK k \in Nat : IsShorter(u, t, k, n, m)
    BY <1>1, <2>1
  <2>3. Unerased(u, E)
    BY <1>1, <2>1, <2>2, ShorterApart
  <2> QED BY <1>4, <2>3 DEF Apart, u
<1> QED BY <1>5, <1>6

(* The other screen is shown. *)
LEMMA SwappedApart ==
    ASSUME cfg \in Configs, NEW n \in Nat, NEW t, Stored(t, n), NEW E, Apart(t, E),
           NEW u, Stored(u, n),
           u.scrollback = t.scrollback, u.tempsblines = t.tempsblines,
           MainScreen(u) = MainScreen(t),
           AltScreen(u) = AltScreen(t) \/ (u.alt_which = 1 /\ BlankRows(u))
    PROVE  Apart(u, E)
<1>1. t.rows = n /\ u.rows = n
  BY DEF Stored, Terminals
<1>2. Blank \notin Text
  BY CfgFacts
<1>3. AltOnly(u)
  <2>1. CASE AltScreen(u) = AltScreen(t)
    BY <1>1, <2>1 DEF Apart, AltOnly
  <2>2. CASE u.alt_which = 1 /\ BlankRows(u)
    BY <1>1, <1>2, <2>2 DEF AltOnly, AltScreen, BlankRows
  <2> QED BY <2>1, <2>2
<1>4. Unerased(u, E)
  BY <1>1 DEF Apart, Unerased
<1> QED BY <1>3, <1>4 DEF Apart

(* A reset makes the primary screen of whichever screen is showing, and erases the
   other as the alternate one; if it clears the primary screen too, F may be any
   text. *)
LEMMA PowerOnApart ==
    ASSUME cfg \in Configs, NEW n \in Nat, n >= 1, NEW t, Stored(t, n),
           NEW E \in SUBSET Text, Apart(t, E), NEW clear,
           NEW F \in SUBSET Text, F = E \/ clear
    PROVE  Apart(power_on(t, clear), F)
<1> DEFINE reset == AsPrimary(t)
           swapped == swap_screen(reset, 1, FALSE, FALSE)
           alt == EraseAll(swapped)
           main == swap_screen(alt, 0, FALSE, FALSE)
           clean == IF clear THEN EraseAll(main) ELSE main
           y == find_last_nonempty_line(clean.screen) + 1
           placed == [clean EXCEPT !.cursy = y - 1]
           u == power_on(t, clear)
<1>0. u = IF y = t.rows THEN scroll(placed, 0, t.rows - 1, 1, TRUE)
          ELSE [clean EXCEPT !.cursy = y]
  BY DEF power_on, AsPrimary
<1> HIDE DEF u
<1>1. Stored(reset, n) /\ Unerased(reset, E)
  <2>1. /\ Stored(reset, n) /\ reset.alt_which = 0
        /\ reset.screen = t.screen /\ reset.alt_screen = t.alt_screen
        /\ reset.scrollback = t.scrollback /\ reset.tempsblines = t.tempsblines
    BY AsPrimaryFacts
  <2> HIDE DEF reset
  <2>2. reset.rows = n /\ t.rows = n
    BY <2>1 DEF Stored, Terminals
  <2>3. \A i \in 0 .. n-1 : reset.screen[i].text \notin E
    <3>1. \A i \in 0 .. n-1 : Fits(t, E, t.screen[i].text)
      BY ScreenFits
    <3> QED BY <2>1, <3>1 DEF Fits
  <2> QED BY <2>1, <2>2, <2>3 DEF Apart, Unerased, MainScreen
<1>2. Stored(swapped, n) /\ Unerased(swapped, E) /\ swapped.alt_which = 1
  <2> HIDE DEF reset
  <2>1. /\ Stored(swapped, n) /\ swapped.alt_which = 1
        /\ swapped.scrollback = reset.scrollback
        /\ swapped.tempsblines = reset.tempsblines
        /\ MainScreen(swapped) = MainScreen(reset)
    BY <1>1, PlainSwapFacts
  <2> HIDE DEF swapped
  <2> QED BY <1>1, <2>1 DEF Unerased, Stored, Terminals
<1>3. Stored(alt, n) /\ Apart(alt, E)
  <2> HIDE DEF swapped
  <2>1. /\ Stored(alt, n) /\ SameFrame(alt, swapped) /\ BlankRows(alt)
        /\ alt.scrollback = swapped.scrollback
        /\ alt.tempsblines = swapped.tempsblines
    BY <1>2, EraseAllFacts
  <2> HIDE DEF alt
  <2>2. AltOnly(alt)
    <3>1. Blank \notin Text
      BY CfgFacts
    <3> QED BY <1>2, <2>1, <3>1 DEF AltOnly, AltScreen, BlankRows, SameFrame
  <2>3. Unerased(alt, E)
    BY <1>2, <2>1 DEF Unerased, MainScreen, SameFrame
  <2> QED BY <2>1, <2>2, <2>3 DEF Apart
<1>4. Stored(main, n) /\ main.alt_which = 0 /\ Apart(main, E)
  <2> HIDE DEF alt
  <2>1. /\ Stored(main, n) /\ main.alt_which = 0
        /\ main.scrollback = alt.scrollback /\ main.tempsblines = alt.tempsblines
        /\ MainScreen(main) = MainScreen(alt) /\ AltScreen(main) = AltScreen(alt)
    BY <1>3, PlainSwapFacts
  <2> HIDE DEF main
  <2> QED BY <1>3, <2>1, SwappedApart
<1> HIDE DEF main
<1>5. Stored(clean, n) /\ clean.alt_which = 0 /\ Apart(clean, F)
  <2>1. CASE clear
    <3> DEFINE v == EraseAll(main)
    <3>1. Stored(v, n) /\ SameFrame(v, main)
      BY <1>4, EraseAllFacts
    <3>2. Apart(v, F)
      BY <1>4, EraseAllApart
    <3> HIDE DEF v
    <3>3. clean = v
      BY <2>1 DEF v
    <3> QED BY <1>4, <3>1, <3>2, <3>3 DEF SameFrame
  <2>2. CASE ~clear
    BY <1>4, <2>2
  <2> QED BY <2>1, <2>2
<1> HIDE DEF clean
<1>6. clean.screen \in [0 .. n-1 -> Line] /\ t.rows = n
  BY <1>5 DEF Stored, Terminals
<1>7. y \in 0 .. n
  <2>1. find_last_nonempty_line(clean.screen) \in -1 .. n-1
    BY <1>6, LastLineFacts
  <2> QED BY <2>1
<1>8. CASE y = t.rows
  <2>1. y - 1 \in 0 .. n-1 /\ n - 1 \in 0 .. n-1 /\ 0 \in Nat
    BY <1>6, <1>7, <1>8
  <2> HIDE DEF y
  <2>2. Stored(placed, n) /\ Apart(placed, F)
    BY <1>5, <2>1, WithCursorFacts, CursorApart
  <2> HIDE DEF placed
  <2>3. PICK top \in Nat, bot \in 0 .. n-1, k \in Int : top = 0 /\ bot = n - 1 /\ k = 1
    BY <2>1
  <2>4. Apart(scroll(placed, top, bot, k, TRUE), F)
    BY <2>2, ScrollApart
  <2>5. u = scroll(placed, top, bot, k, TRUE)
    BY <1>0, <1>6, <1>8, <2>3
  <2> QED BY <2>4, <2>5 DEF u
<1>9. CASE y # t.rows
  <2>1. y \in 0 .. n-1
    BY <1>6, <1>7, <1>9
  <2> HIDE DEF y
  <2>2. Apart([clean EXCEPT !.cursy = y], F)
    BY <1>5, <2>1, CursorApart
  <2> QED BY <1>0, <1>9, <2>2 DEF u
<1> QED BY <1>8, <1>9

(* Neither margins, nor the view, nor the mouse moves text. *)
LEMMA StillApart ==
    ASSUME TInv,
           \/ SetMargins \/ ViewScroll \/ ReturnToBottom
           \/ MouseClick \/ MouseDoubleClick \/ MouseExtend \/ MouseMove \/ MouseRelease
           \/ LoseClipboard
    PROVE  Apart(term', erased')
<1>1. IInv /\ Stored(term, term.rows) /\ Apart(term, erased)
  BY DEF TInv, IInv
<1>2. erased' = erased
  BY DEF SetMargins, ViewScroll, ReturnToBottom, MouseClick, MouseDoubleClick,
         MouseExtend, MouseMove, MouseRelease, LoseClipboard
<1>3. CASE SetMargins
  <2>1. PICK top, bot, y :
           term' = [term EXCEPT !.marg_t = top, !.marg_b = bot, !.cursy = y]
    BY <1>3 DEF SetMargins, Output
  <2>2. /\ term'.rows = term.rows /\ term'.alt_which = term.alt_which
        /\ term'.screen = term.screen /\ term'.alt_screen = term.alt_screen
        /\ term'.scrollback = term.scrollback /\ term'.tempsblines = term.tempsblines
    BY <1>1, <2>1 DEF Stored, Terminals
  <2> QED BY <1>1, <1>2, <2>2, SameTextApart
<1>4. CASE ViewScroll \/ ReturnToBottom
  <2>1. PICK d : term' = [term EXCEPT !.disptop = d]
    BY <1>4 DEF ViewScroll, ReturnToBottom, ViewTo
  <2>2. /\ term'.rows = term.rows /\ term'.alt_which = term.alt_which
        /\ term'.screen = term.screen /\ term'.alt_screen = term.alt_screen
        /\ term'.scrollback = term.scrollback /\ term'.tempsblines = term.tempsblines
    BY <1>1, <2>1 DEF Stored, Terminals
  <2> QED BY <1>1, <1>2, <2>2, SameTextApart
<1>5. CASE MouseClick \/ MouseDoubleClick \/ MouseExtend \/ MouseMove \/ MouseRelease
              \/ LoseClipboard
  BY <1>1, <1>2, <1>5, MouseFacts, SameLinesApart
<1> QED BY <1>3, <1>4, <1>5

(* DECALN fills the screen with text that may be written. *)
LEMMA AlignmentApart ==
    ASSUME TInv, ScreenAlignment
    PROVE  Apart(term', erased')
<1> DEFINE n == term.rows
<1>1. /\ cfg \in Configs /\ n \in Nat /\ IInv
      /\ Stored(term, n) /\ erased \in SUBSET Text /\ Apart(term, erased)
  BY CfgFacts DEF IInv, TInv
<1>2. erased' = erased
  BY DEF ScreenAlignment
<1>2a. PICK x \in WritableText(term) : \E u :
         /\ Stored(u, n) /\ SameLines(u, term)
         /\ FilledWith(n, x) \in [0 .. n-1 -> Line]
         /\ term' = AtBottom(WithScreen(u, FilledWith(n, x)))
  BY <1>1, AlignmentFacts
<1>3. PICK u :
         /\ Stored(u, n) /\ SameLines(u, term)
         /\ FilledWith(n, x) \in [0 .. n-1 -> Line]
         /\ term' = AtBottom(WithScreen(u, FilledWith(n, x)))
  BY <1>2a
<1> HIDE DEF n
<1> DEFINE s == FilledWith(n, x)
           v == WithScreen(u, s)
<1>4. \A i \in 0 .. n-1 : s[i].text = x
  BY DEF FilledWith
<1>5. Fits(u, erased, x)
  BY <1>1, <1>3, WritableFits DEF Fits, SameLines
<1> HIDE DEF s
<1>6. \A i \in 0 .. n-1 : Fits(u, erased, s[i].text)
  BY <1>4, <1>5
<1>7. Apart(u, erased)
  BY <1>1, <1>3, SameLinesApart
<1>8. s \in [0 .. n-1 -> Line]
  BY <1>3 DEF s
<1>9. Stored(v, n) /\ Apart(v, erased)
  BY <1>1, <1>3, <1>6, <1>7, <1>8, WithScreenFacts, WithScreenApart
<1> HIDE DEF v
<1>10. Apart(AtBottom(v), erased)
  BY <1>1, <1>9, BottomApart
<1> QED BY <1>2, <1>3, <1>10 DEF v, s

(* DECCOLM erases the screen. *)
LEMMA ColumnModeApart ==
    ASSUME TInv, ColumnMode
    PROVE  Apart(term', erased')
<1> DEFINE n == term.rows
           d == deselect(term)
           r == Resized(d, n)
<1>1. /\ cfg \in Configs /\ n \in Nat /\ n >= 1 /\ IInv
      /\ Stored(term, n) /\ erased \in SUBSET Text /\ Apart(term, erased)
  BY CfgFacts DEF IInv, TInv
<1>2. PICK u \in {d, r} : term' = EraseAll(FullMargins(u))
  BY <1>1, ColumnModeFacts
<1>3. PICK F \in SUBSET Text : F = erased' /\ (F = erased \/ term.alt_which = 0)
  <2>1. erased \union Recorded(term) \in SUBSET Text
    BY <1>1 DEF Recorded
  <2> QED BY <1>1, <2>1 DEF ColumnMode, ErasedBy
<1> HIDE DEF n
<1>4. Stored(d, n) /\ d.alt_which = term.alt_which /\ Apart(d, erased)
  <2>1. Stored(d, n) /\ SameLines(d, term)
    BY <1>1, DeselectFacts
  <2> HIDE DEF d
  <2> QED BY <1>1, <2>1, SameLinesApart DEF SameLines
<1> HIDE DEF d
<1>5. Stored(r, n) /\ r.alt_which = d.alt_which /\ Apart(r, erased)
  BY <1>1, <1>4, ResizedFacts, ResizedApart
<1> HIDE DEF r
<1>6. Stored(u, n) /\ u.alt_which = term.alt_which /\ Apart(u, erased)
  BY <1>2, <1>4, <1>5
<1> DEFINE f == FullMargins(u)
<1>7. /\ Stored(f, n) /\ f.alt_which = u.alt_which /\ f.rows = u.rows
      /\ f.screen = u.screen /\ f.alt_screen = u.alt_screen
      /\ f.scrollback = u.scrollback /\ f.tempsblines = u.tempsblines
  BY <1>1, <1>6, FullMarginsFacts
<1> HIDE DEF f
<1>8. Apart(f, erased)
  BY <1>6, <1>7, SameTextApart
<1>9. Apart(EraseAll(f), F)
  BY <1>1, <1>3, <1>6, <1>7, <1>8, EraseAllApart
<1> QED BY <1>2, <1>3, <1>9 DEF f

(* RIS, and a new session on the old terminal. *)
LEMMA PowerApart ==
    ASSUME TInv, Reset \/ Restart
    PROVE  Apart(term', erased')
<1> DEFINE n == term.rows
<1>1. /\ cfg \in Configs /\ n \in Nat /\ n >= 1
      /\ Stored(term, n) /\ erased \in SUBSET Text /\ Apart(term, erased)
  BY CfgFacts DEF IInv, TInv
<1> HIDE DEF n
<1>2. CASE Reset
  <2>1. PICK clear : clear = TRUE
    OBVIOUS
  <2>2. PICK F \in SUBSET Text : F = erased'
    BY <1>1, <1>2 DEF Reset, Recorded
  <2> DEFINE u == power_on(term, clear)
             r == Resized(u, u.rows)
  <2>3. PICK v \in {u, r} : term' = AtBottom(v)
    BY <1>2, <2>1 DEF Reset, Output, AtBottom
  <2>4. Stored(u, n) /\ Apart(u, F)
    BY <1>1, <2>1, PowerOnFacts, PowerOnApart
  <2> HIDE DEF u
  <2>5. u.rows = n
    BY <2>4 DEF Stored, Terminals
  <2>6. Stored(r, n) /\ Apart(r, F)
    BY <1>1, <2>4, <2>5, ResizedFacts, ResizedApart
  <2> HIDE DEF r
  <2>7. Apart(AtBottom(v), F)
    BY <1>1, <2>4, <2>6, BottomApart
  <2> QED BY <2>2, <2>3, <2>7
<1>3. CASE Restart
  <2>1. PICK clear : clear = FALSE
    OBVIOUS
  <2> DEFINE u == power_on(term, clear)
             b == AtBottom(u)
             v == deselect(b)
  <2>2. term' = v /\ erased' = erased
    BY <1>3, <2>1 DEF Restart, AtBottom
  <2>3. Stored(u, n) /\ Apart(u, erased)
    BY <1>1, PowerOnFacts, PowerOnApart
  <2> HIDE DEF u
  <2>4. Stored(b, n) /\ Apart(b, erased)
    BY <1>1, <2>3, AtBottomFacts, BottomApart
  <2> HIDE DEF b
  <2>5. SameLines(v, b)
    BY <1>1, <2>4, DeselectFacts
  <2> HIDE DEF v
  <2> QED BY <2>2, <2>4, <2>5, SameLinesApart
<1> QED BY <1>2, <1>3

(* Every step does. *)
LEMMA StepApart ==
    ASSUME TInv, Next
    PROVE  Apart(term', erased')
<1>1. /\ cfg \in Configs /\ term.rows \in Nat /\ IInv
      /\ Stored(term, term.rows) /\ erased \in SUBSET Text /\ Apart(term, erased)
  BY CfgFacts DEF IInv, TInv
<1>2. CASE MoveRow \/ LineFeed \/ ReverseIndex \/ GraphicChar
              \/ ScrollRegion \/ InsertLines \/ DeleteLines
  BY <1>2, PrintingApart
<1>3. CASE EraseDisplay \/ EraseFromHome \/ EraseSavedLines \/ EraseInLine
  BY <1>3, ErasingApart
<1>4. CASE \/ SetMargins \/ ViewScroll \/ ReturnToBottom
           \/ MouseClick \/ MouseDoubleClick \/ MouseExtend \/ MouseMove \/ MouseRelease
           \/ LoseClipboard
  BY <1>4, StillApart
<1>5. CASE ScreenAlignment
  BY <1>5, AlignmentApart
<1>6. CASE AltScreenMode
  <2>1. erased' = erased
    BY <1>6 DEF AltScreenMode
  <2>2. /\ Stored(term', term.rows)
        /\ term'.scrollback = term.scrollback /\ term'.tempsblines = term.tempsblines
        /\ MainScreen(term') = MainScreen(term)
        /\ AltScreen(term') = AltScreen(term) \/ (term'.alt_which = 1 /\ BlankRows(term'))
    BY <1>1, <1>6, AltModeFacts
  <2> QED BY <1>1, <2>1, <2>2, SwappedApart
<1>7. CASE ColumnMode
  BY <1>7, ColumnModeApart
<1>8. CASE Reset \/ Restart
  BY <1>8, PowerApart
<1>9. CASE Resize
  <2>1. PICK m \in Heights : term' = Resized(term, m)
    BY <1>9 DEF Resize
  <2>2. erased' = erased /\ m \in Nat /\ m >= 1
    BY <1>1, <1>9, CfgFacts DEF Resize
  <2> QED BY <1>1, <2>1, <2>2, ResizedApart
<1> QED BY <1>2, <1>3, <1>4, <1>5, <1>6, <1>7, <1>8, <1>9 DEF Next

(* A terminal starts blank. *)
LEMMA InitialApart ==
    ASSUME Init
    PROVE  TInv
<1>1. IInv
  BY InitInvariant
<1>2. PICK n \in Heights : term = InitialTerm(n)
  BY DEF Init
<1>3. cfg \in Configs /\ n \in Nat /\ erased = {} /\ Blank \notin Text
  BY <1>2, CfgFacts DEF Init
<1>4. /\ term.rows = n /\ term.alt_which = 0 /\ term.alt_screen = BlankScreen(n)
      /\ Len(term.scrollback) = 0
  BY <1>2 DEF InitialTerm
<1>5. AltOnly(term)
  BY <1>3, <1>4 DEF AltOnly, AltScreen, BlankScreen, BlankLine
<1>6. Unerased(term, erased)
  BY <1>3, <1>4 DEF Unerased
<1> QED BY <1>1, <1>5, <1>6 DEF TInv, Apart

(* The invariant is kept. *)
LEMMA StepText ==
    ASSUME TInv, [Next]_vars
    PROVE  TInv'
<1>1. IInv'
  BY StepInvariant DEF TInv
<1>2. Apart(term', erased') /\ cfg' = cfg
  <2>1. CASE Next
    BY <2>1, StepApart, StepHandled DEF TInv
  <2>2. CASE UNCHANGED vars
    BY <2>2 DEF TInv, vars
  <2> QED BY <2>1, <2>2
<1>3. Text' = Text
  BY <1>2 DEF Text
<1>4. Apart(term, erased)'
  BY <1>2, <1>3 DEF Apart, Unerased, AltOnly, MainScreen, AltScreen
<1> QED BY <1>1, <1>4 DEF TInv

(* It says what was erased is not on the primary screen. *)
LEMMA TextInvariantSound ==
    ASSUME TInv
    PROVE  ErasedStaysErased
<1>1. /\ Stored(term, term.rows) /\ Unerased(term, erased)
  BY DEF TInv, IInv, Apart
<1>2. DOMAIN MainScreen(term) = 0 .. term.rows - 1
  BY <1>1 DEF Stored, Terminals, MainScreen
<1> QED BY <1>1, <1>2 DEF ErasedStaysErased, LabelsOf, Unerased

(* Text thrown away by an erase of the whole primary screen never shows on it
   again, however the window is then resized, the terminal reset, or its screens
   exchanged: no line that erase_lots() scrolled away comes back. *)
THEOREM ErasedTextStaysErased == Spec => []ErasedStaysErased
<1>1. Init => TInv
  BY InitialApart
<1>2. TInv /\ [Next]_vars => TInv'
  BY StepText
<1>3. TInv => ErasedStaysErased
  BY TextInvariantSound
<1> QED BY <1>1, <1>2, <1>3, PTL DEF Spec

-----------------------------------------------------------------------------
(* The selection and the lines that scroll. *)

(* Every row of the buffer with text on it had that text before, and if the
   selection began there then, it begins here now. *)
Followed(u, t) ==
    \A q \in BufferRows(u) :
        lineptr(u, q).text # Blank =>
            \E r \in BufferRows(t) :
                /\ lineptr(u, q).text = lineptr(t, r).text
                /\ r = t.selstart => u.selstart = q

(* So does a selection that begins on text found nowhere else. *)
LEMMA FollowedHolds ==
    ASSUME NEW t, NEW u, Followed(u, t), t.selstart \in BufferRows(t),
           Sole(t, t.selstart), Holds(u, lineptr(t, t.selstart).text)
    PROVE  /\ u.selstart \in BufferRows(u)
           /\ lineptr(u, u.selstart).text = lineptr(t, t.selstart).text
<1>1. PICK q \in BufferRows(u) : lineptr(u, q).text = lineptr(t, t.selstart).text
  BY DEF Holds
<1>2. lineptr(u, q).text # Blank
  BY <1>1 DEF Sole
<1>3. PICK r \in BufferRows(t) : /\ lineptr(u, q).text = lineptr(t, r).text
                                 /\ r = t.selstart => u.selstart = q
  BY <1>2 DEF Followed
<1>4. r = t.selstart
  BY <1>1, <1>3 DEF Sole
<1> QED BY <1>1, <1>3, <1>4

(* Where a line of a scrollback that k lines have entered comes from: row q of
   the buffer was row q + k. *)
CameFrom(t, s, q, r, bot) ==
    /\ -SaveLines <= q /\ -Len(t.scrollback) <= r
    /\ s[q + Len(s) + 1] =
          IF r < 0 THEN t.scrollback[r + Len(t.scrollback) + 1]
          ELSE IF r <= bot THEN t.screen[r]
          ELSE BlankLine
LEMMA SavedOrigin ==
    ASSUME cfg \in Configs, NEW n \in Nat, NEW t, Stored(t, n),
           NEW top \in Nat, top <= 0, NEW bot \in 0 .. n-1, NEW k \in Nat,
           NEW sb, sb /\ SaveLines > 0,
           NEW q \in Int, q < 0, -Len(SavedLines(t, top, bot, k, sb)) <= q,
           NEW r \in Int, r = q + k
    PROVE  CameFrom(t, SavedLines(t, top, bot, k, sb), q, r, bot)
<1> DEFINE l == LeavingLines(t, top, bot, k)
           c == t.scrollback \o l
           s == SavedLines(t, top, bot, k, sb)
           o == Len(t.scrollback)
<1>1. /\ t.scrollback \in Seq(Line) /\ o \in Nat /\ o <= SaveLines /\ SaveLines \in Nat
  BY CfgFacts, LenProperties DEF Stored, Terminals
<1>2. \A h \in 1 .. k : l[h] =
         IF top + h - 1 <= bot THEN t.screen[top + h - 1] ELSE BlankLine
  BY DEF LeavingLines
<1>3. l \in Seq(Line) /\ Len(l) = k
  <2> HIDE DEF c, s, o
  <2>1. /\ LeavingLines(t, top, bot, k) \in Seq(Line)
        /\ Len(LeavingLines(t, top, bot, k)) = k
    BY LeavingLinesType
  <2> QED BY <2>1
<1>4. \A h \in 1 .. k : l[h] = IF h - 1 <= bot THEN t.screen[h - 1] ELSE BlankLine
  <2>2. \A h \in 1 .. k : top + h - 1 = h - 1
    OBVIOUS
  <2> HIDE DEF l
  <2> QED BY <1>2, <2>2
<1>5. s = Newest(c, SaveLines)
  BY DEF SavedLines
<1>6. c \in Seq(Line) /\ Len(c) = o + k
  <2>1. t.scrollback \in Seq(Line)
    BY <1>1
  <2> HIDE DEF l
  <2>2. /\ t.scrollback \o l \in Seq(Line)
        /\ Len(t.scrollback \o l) = Len(t.scrollback) + Len(l)
    BY <2>1, <1>3, ConcatProperties
  <2> QED BY <1>3, <2>2
<1>7. \A h \in 1 .. o + k : c[h] = IF h <= o THEN t.scrollback[h] ELSE l[h - o]
  <2> HIDE DEF l
  <2> QED BY <1>1, <1>3, ConcatProperties
<1>8. -Len(s) <= q
  OBVIOUS
<1> HIDE DEF l, c, s, o
<1>9. Len(s) = Lesser(o + k, SaveLines)
  BY <1>1, <1>5, <1>6, NewestFacts
<1>10. \A h \in 1 .. Len(s) : s[h] = c[h + Len(c) - Len(s)]
  BY <1>1, <1>5, <1>6, NewestFacts
<1>11. Len(s) \in Nat /\ Len(s) <= o + k /\ Len(s) <= SaveLines
  BY <1>1, <1>9 DEF Lesser
<1>12. PICK j \in Int : j = q + Len(s) + 1
  BY <1>11
<1>13. PICK e \in Int : e = q + k + o + 1
  BY <1>1
<1>14. j \in 1 .. Len(s) /\ e \in 1 .. o + k /\ e = j + Len(c) - Len(s)
  BY <1>1, <1>6, <1>8, <1>11, <1>12, <1>13
<1>15. s[j] = c[e]
  BY <1>10, <1>14
<1>17. -SaveLines <= q /\ -o <= r
  BY <1>1, <1>8, <1>11, <1>13, <1>14
<1>18. s[j] = IF r < 0 THEN t.scrollback[r + o + 1]
              ELSE IF r <= bot THEN t.screen[r] ELSE BlankLine
  <2>1. CASE r < 0
    <3>1. e <= o /\ e = r + o + 1
      BY <1>1, <1>13, <2>1
    <3> QED BY <1>7, <1>14, <1>15, <2>1, <3>1
  <2>2. CASE ~(r < 0)
    <3>1. PICK h \in Int : h = e - o
      BY <1>1
    <3>2. h \in 1 .. k /\ h - 1 = r /\ ~(e <= o)
      BY <1>1, <1>13, <1>14, <2>2, <3>1
    <3>3. s[j] = l[h]
      BY <1>7, <1>14, <1>15, <3>1, <3>2
    <3> QED BY <1>4, <2>2, <3>2, <3>3
  <2> QED BY <2>1, <2>2
<1> QED BY <1>12, <1>17, <1>18 DEF s, o, CameFrom

(* The rows of the buffer, and the line at each. *)
LEMMA RowFacts ==
    ASSUME NEW n \in Nat, NEW t, Stored(t, n)
    PROVE  /\ BufferRows(t) = -(Len(t.scrollback) + altlines(t)) .. n - 1
           /\ altlines(t) \in Nat /\ Len(t.scrollback) \in Nat
           /\ t.alt_which = 0 => altlines(t) = 0
           /\ \A y \in Nat : lineptr(t, y) = t.screen[y]
           /\ \A y \in Int : y < 0 /\ altlines(t) = 0 =>
                 lineptr(t, y) = t.scrollback[y + Len(t.scrollback) + 1]
<1>1. /\ t.rows = n /\ t.alt_sblines \in Nat /\ Len(t.scrollback) \in Nat
  BY LenProperties DEF Stored, Terminals
<1>2. altlines(t) \in Nat /\ (t.alt_which = 0 => altlines(t) = 0)
  BY <1>1 DEF altlines
<1>3. \A y \in Nat : lineptr(t, y) = t.screen[y]
  BY DEF lineptr
<1>4. ASSUME NEW y \in Int, y < 0, altlines(t) = 0
      PROVE  lineptr(t, y) = t.scrollback[y + Len(t.scrollback) + 1]
  <2>1. CASE y < -altlines(t)
    <3>1. lineptr(t, y) = t.scrollback[y + altlines(t) + Len(t.scrollback) + 1]
      BY <1>4, <2>1 DEF lineptr
    <3>2. y + altlines(t) + Len(t.scrollback) + 1 = y + Len(t.scrollback) + 1
      BY <1>1, <1>4
    <3> QED BY <3>1, <3>2
  <2> QED BY <1>4, <2>1
<1> QED BY <1>1, <1>2, <1>3, <1>4 DEF BufferRows, sblines

(* With nothing added to the scrollback, rows above the screen are untouched. *)
LEMMA AboveSame ==
    ASSUME NEW t, NEW u, u.scrollback = t.scrollback, SameScreens(u, t)
    PROVE  /\ altlines(u) = altlines(t)
           /\ \A y \in Int : y < 0 => lineptr(u, y) = lineptr(t, y)
<1>1. altlines(u) = altlines(t)
  BY DEF altlines, SameScreens
<1> QED BY <1>1 DEF lineptr, SameScreens

(* Where a row of the screen comes from when rows top..bot move up by k. *)
LEMMA ScrolledOrigin ==
    ASSUME NEW n \in Nat, NEW t, Stored(t, n),
           NEW top \in Nat, NEW bot \in 0 .. n-1, NEW k \in Int, NEW q \in 0 .. n-1,
           ScrolledRows(t, top, bot, k)[q].text # Blank
    PROVE  \/ /\ q < top \/ q > bot
              /\ ScrolledRows(t, top, bot, k)[q] = t.screen[q]
           \/ /\ top <= q /\ q <= bot /\ top <= q + k /\ q + k <= bot
              /\ ScrolledRows(t, top, bot, k)[q] = t.screen[q + k]
<1>1. t.rows = n
  BY DEF Stored, Terminals
<1>2. ScrolledRows(t, top, bot, k)[q] =
         IF q < top \/ q > bot THEN t.screen[q]
         ELSE IF top <= q + k /\ q + k <= bot THEN t.screen[q + k]
         ELSE BlankLine
  BY <1>1 DEF ScrolledRows
<1>3. BlankLine.text = Blank
  BY DEF BlankLine
<1> QED BY <1>2, <1>3

(* A selection follows the lines that move up, into the scrollback too. *)
LEMMA FollowedUp ==
    ASSUME cfg \in Configs, NEW n \in Nat, NEW t, Stored(t, n),
           t.selstate # "NO_SELECTION",
           NEW top \in Nat, NEW bot \in 0 .. n-1, NEW k \in Nat,
           NEW sb \in BOOLEAN, sb => top = 0 /\ t.alt_which = 0
    PROVE  Followed(ScrollUp(t, top, bot, k, sb), t)
<1> DEFINE u == ScrollUp(t, top, bot, k, sb)
           s == SavedLines(t, top, bot, k, sb)
           lim == IF sb THEN -SaveLines ELSE top
<1>1. /\ Stored(u, n) /\ SameScreens(u, t)
      /\ u.screen = ScrolledRows(t, top, bot, k)
      /\ u.scrollback = s
      /\ u.selstart = FollowUp(t, t.selstart, top, bot, k, sb)
  BY ScrollUpFacts
<1>2. SaveLines \in Nat /\ Len(t.scrollback) <= SaveLines
  BY CfgFacts DEF Stored
<1>3. t.selstart \in Int
  BY DEF Stored, Terminals
<1>4. u.selstart = IF lim <= t.selstart /\ t.selstart <= bot
                   THEN Greater(t.selstart - k, lim) ELSE t.selstart
  BY <1>1 DEF FollowUp, SelUp
<1> HIDE DEF u
<1>5. /\ BufferRows(t) = -(Len(t.scrollback) + altlines(t)) .. n - 1
      /\ altlines(t) \in Nat /\ Len(t.scrollback) \in Nat
      /\ t.alt_which = 0 => altlines(t) = 0
      /\ \A y \in Nat : lineptr(t, y) = t.screen[y]
      /\ \A y \in Int : y < 0 /\ altlines(t) = 0 =>
            lineptr(t, y) = t.scrollback[y + Len(t.scrollback) + 1]
  BY RowFacts
<1>6. /\ BufferRows(u) = -(Len(u.scrollback) + altlines(u)) .. n - 1
      /\ altlines(u) \in Nat /\ Len(u.scrollback) \in Nat
      /\ \A y \in Nat : lineptr(u, y) = u.screen[y]
      /\ \A y \in Int : y < 0 /\ altlines(u) = 0 =>
            lineptr(u, y) = u.scrollback[y + Len(u.scrollback) + 1]
  BY <1>1, RowFacts
<1>7. lim \in Int /\ lim <= top /\ (~sb => lim = top) /\ (sb => lim = -SaveLines)
  BY <1>2
<1> HIDE DEF s, lim
<1> SUFFICES ASSUME NEW q \in BufferRows(u), lineptr(u, q).text # Blank
             PROVE  \E r \in BufferRows(t) :
                       /\ lineptr(u, q).text = lineptr(t, r).text
                       /\ r = t.selstart => u.selstart = q
  BY DEF Followed, u
<1>8. q \in Int /\ q <= n - 1
  BY <1>6
<1>9. CASE q >= 0
  <2>1. q \in 0 .. n-1 /\ lineptr(u, q) = u.screen[q]
    BY <1>6, <1>8, <1>9
  <2>2. k \in Int
    OBVIOUS
  <2>3. \/ /\ q < top \/ q > bot
           /\ u.screen[q] = t.screen[q]
        \/ /\ top <= q /\ q <= bot /\ top <= q + k /\ q + k <= bot
           /\ u.screen[q] = t.screen[q + k]
    BY <1>1, <2>1, <2>2, ScrolledOrigin
  <2>4. CASE (q < top \/ q > bot) /\ u.screen[q] = t.screen[q]
    <3>1. q \in BufferRows(t) /\ lineptr(t, q) = t.screen[q]
      BY <1>5, <1>8, <1>9
    <3>2. q = t.selstart => u.selstart = q
      BY <1>4, <1>7, <1>8, <1>9, <2>4
    <3> QED BY <2>1, <2>4, <3>1, <3>2
  <2>5. CASE top <= q /\ q <= bot /\ q + k <= bot /\ u.screen[q] = t.screen[q + k]
    <3>1. PICK r \in Nat : r = q + k
      BY <1>8, <1>9
    <3>2. r \in BufferRows(t) /\ lineptr(t, r) = t.screen[r]
      BY <1>5, <1>8, <1>9, <2>5, <3>1
    <3>3. r = t.selstart => u.selstart = q
      BY <1>4, <1>7, <1>8, <1>9, <2>5, <3>1 DEF Greater
    <3> QED BY <2>1, <2>5, <3>1, <3>2, <3>3
  <2> QED BY <2>3, <2>4, <2>5
<1>10. CASE q < 0 /\ ~(sb /\ SaveLines > 0)
  <2>1. s = t.scrollback
    BY <1>10 DEF s, SavedLines
  <2>2. altlines(u) = altlines(t) /\ lineptr(u, q) = lineptr(t, q)
    BY <1>1, <1>8, <1>10, <2>1, AboveSame
  <2>3. q \in BufferRows(t)
    BY <1>1, <1>5, <1>6, <2>1, <2>2
  <2>4. ~sb
    BY <1>2, <1>5, <1>10, <2>3
  <2>5. q = t.selstart => u.selstart = q
    BY <1>4, <1>7, <1>8, <1>10, <2>4
  <2> QED BY <2>2, <2>3, <2>5
<1>11. CASE q < 0 /\ sb /\ SaveLines > 0
  <2>1. altlines(t) = 0 /\ altlines(u) = 0 /\ top = 0
    BY <1>1, <1>5, <1>11 DEF altlines, SameScreens
  <2>2. lineptr(u, q) = s[q + Len(s) + 1]
    BY <1>1, <1>6, <1>8, <1>11, <2>1
  <2>4. PICK r \in Int : r = q + k
    BY <1>8
  <2>5. /\ -SaveLines <= q /\ -Len(t.scrollback) <= r
        /\ s[q + Len(s) + 1] =
              IF r < 0 THEN t.scrollback[r + Len(t.scrollback) + 1]
              ELSE IF r <= bot THEN t.screen[r]
              ELSE BlankLine
    <3>0. top <= 0
      BY <2>1
    <3>1. -Len(SavedLines(t, top, bot, k, sb)) <= q
      BY <1>1, <1>6, <2>1 DEF s
    <3>2. sb /\ SaveLines > 0
      BY <1>11
    <3>3. CameFrom(t, SavedLines(t, top, bot, k, sb), q, r, bot)
      BY <1>8, <1>11, <2>4, <3>0, <3>1, <3>2, SavedOrigin
    <3> QED BY <3>3 DEF s, CameFrom
  <2>6. r <= bot
    BY <2>2, <2>5, <1>11 DEF BlankLine
  <2>7. r \in BufferRows(t) /\ lineptr(t, r) = lineptr(u, q)
    BY <1>5, <2>1, <2>2, <2>4, <2>5, <2>6
  <2>8. ASSUME r = t.selstart PROVE u.selstart = q
    <3>1. lim = -SaveLines /\ lim <= q
      BY <1>7, <1>11, <2>5
    <3>2. lim <= r /\ r <= bot /\ r - k = q
      BY <1>7, <1>8, <2>4, <2>6, <3>1
    <3> QED BY <1>4, <2>8, <3>1, <3>2 DEF Greater
  <2> QED BY <2>7, <2>8
<1> QED BY <1>8, <1>9, <1>10, <1>11

(* And those that move down. *)
LEMMA FollowedDown ==
    ASSUME cfg \in Configs, NEW n \in Nat, NEW t, Stored(t, n),
           t.selstate # "NO_SELECTION",
           NEW top \in Nat, NEW bot \in 0 .. n-1, NEW k \in Nat
    PROVE  Followed(ScrollDown(t, top, bot, k), t)
<1> DEFINE u == ScrollDown(t, top, bot, k)
<1>0. PICK j \in Int : j = -k
  OBVIOUS
<1>1. /\ Stored(u, n) /\ SameScreens(u, t)
      /\ u.screen = ScrolledRows(t, top, bot, j)
      /\ u.scrollback = t.scrollback
      /\ u.selstart = FollowDown(t, t.selstart, top, bot, k)
  <2>1. /\ Stored(u, n) /\ SameScreens(u, t)
        /\ u.screen = ScrolledRows(t, top, bot, -k)
        /\ u.scrollback = t.scrollback
        /\ u.selstart = FollowDown(t, t.selstart, top, bot, k)
    BY ScrollDownFacts
  <2> QED BY <1>0, <2>1
<1> HIDE DEF u
<1>2. t.selstart \in Int
  BY DEF Stored, Terminals
<1>3. u.selstart = IF top <= t.selstart /\ t.selstart <= bot
                   THEN Lesser(t.selstart + k, bot + 1) ELSE t.selstart
  BY <1>1 DEF FollowDown, SelDown
<1>4. /\ BufferRows(t) = -(Len(t.scrollback) + altlines(t)) .. n - 1
      /\ altlines(t) \in Nat /\ Len(t.scrollback) \in Nat
      /\ \A y \in Nat : lineptr(t, y) = t.screen[y]
  BY RowFacts
<1>5. /\ BufferRows(u) = -(Len(u.scrollback) + altlines(u)) .. n - 1
      /\ \A y \in Nat : lineptr(u, y) = u.screen[y]
  BY <1>1, RowFacts
<1>6. /\ altlines(u) = altlines(t)
      /\ \A y \in Int : y < 0 => lineptr(u, y) = lineptr(t, y)
  BY <1>1, AboveSame
<1>7. BufferRows(u) = BufferRows(t)
  BY <1>1, <1>4, <1>5, <1>6
<1> SUFFICES ASSUME NEW q \in BufferRows(u), lineptr(u, q).text # Blank
             PROVE  \E r \in BufferRows(t) :
                       /\ lineptr(u, q).text = lineptr(t, r).text
                       /\ r = t.selstart => u.selstart = q
  BY DEF Followed, u
<1>8. q \in Int /\ q <= n - 1
  BY <1>5
<1>9. CASE q >= 0
  <2>1. q \in 0 .. n-1 /\ lineptr(u, q) = u.screen[q]
    BY <1>5, <1>8, <1>9
  <2>2. \/ /\ q < top \/ q > bot
           /\ u.screen[q] = t.screen[q]
        \/ /\ top <= q /\ q <= bot /\ top <= q + j /\ q + j <= bot
           /\ u.screen[q] = t.screen[q + j]
    BY <1>1, <2>1, ScrolledOrigin
  <2>3. CASE (q < top \/ q > bot) /\ u.screen[q] = t.screen[q]
    <3>1. lineptr(t, q) = t.screen[q]
      BY <1>4, <1>8, <1>9
    <3>2. q = t.selstart => u.selstart = q
      BY <1>3, <1>8, <2>3
    <3> QED BY <1>7, <2>1, <2>3, <3>1, <3>2
  <2>4. CASE q <= bot /\ top <= q + j /\ u.screen[q] = t.screen[q + j]
    <3>1. PICK r \in Int : r = q + j
      BY <1>8
    <3>2. r \in Nat /\ r <= q /\ q = r + k
      BY <1>0, <2>4, <1>8, <3>1
    <3>3. r \in BufferRows(t) /\ lineptr(t, r) = t.screen[r]
      BY <1>4, <1>8, <3>2
    <3>4. r = t.selstart => u.selstart = q
      BY <1>3, <1>8, <2>4, <3>1, <3>2 DEF Lesser
    <3> QED BY <2>1, <2>4, <3>1, <3>3, <3>4
  <2> QED BY <2>2, <2>3, <2>4
<1>10. CASE q < 0
  <2>1. lineptr(u, q) = lineptr(t, q)
    BY <1>6, <1>8, <1>10
  <2>2. q = t.selstart => u.selstart = q
    BY <1>3, <1>8, <1>10
  <2> QED BY <1>7, <2>1, <2>2
<1> QED BY <1>8, <1>9, <1>10

(* A region scrolls, either way. *)
LEMMA ScrollFollowed ==
    ASSUME cfg \in Configs, NEW n \in Nat, NEW t, Stored(t, n),
           t.selstate # "NO_SELECTION",
           NEW top \in Nat, NEW bot \in 0 .. n-1, NEW k \in Int
    PROVE  /\ Followed(scroll(t, top, bot, k, TRUE), t)
           /\ Followed(scroll(t, top, bot, k, FALSE), t)
<1>1. ASSUME NEW sb PROVE Followed(scroll(t, top, bot, k, sb), t)
  <2>1. CASE k < 0
    <3>1. PICK j \in Nat : j = -k
      BY <2>1
    <3>2. scroll(t, top, bot, k, sb) = ScrollDown(t, top, bot, j)
      BY <2>1, <3>1 DEF scroll
    <3> QED BY <3>2, FollowedDown
  <2>2. CASE ~(k < 0)
    <3>1. PICK b \in BOOLEAN : b <=> (sb /\ top = 0 /\ t.alt_which = 0)
      OBVIOUS
    <3>2. k \in Nat /\ (b => top = 0 /\ t.alt_which = 0)
      BY <2>2, <3>1
    <3>3. scroll(t, top, bot, k, sb) = ScrollUp(t, top, bot, k, b)
      BY <2>2, <3>1 DEF scroll
    <3> QED BY <3>2, <3>3, FollowedUp
  <2> QED BY <2>1, <2>2
<1> QED BY <1>1, Zenon

(* So does a terminal whose lines and selection are those it had. *)
LEMMA StillFollowed ==
    ASSUME NEW t, NEW u, u.rows = t.rows, u.alt_which = t.alt_which,
           u.screen = t.screen, u.alt_screen = t.alt_screen,
           u.scrollback = t.scrollback, u.alt_sblines = t.alt_sblines,
           u.selstart = t.selstart
    PROVE  Followed(u, t)
<1>1. altlines(u) = altlines(t)
  BY DEF altlines
<1>2. BufferRows(u) = BufferRows(t)
  BY <1>1 DEF BufferRows, sblines
<1>3. \A q : lineptr(u, q) = lineptr(t, q)
  BY <1>1 DEF lineptr
<1> QED BY <1>2, <1>3 DEF Followed

(* The cursor moves. *)
LEMMA CursorFollowed ==
    ASSUME NEW n \in Nat, NEW t, Stored(t, n), NEW y \in 0 .. n-1
    PROVE  Followed([t EXCEPT !.cursy = y], t)
<1> DEFINE u == [t EXCEPT !.cursy = y]
<1>1. /\ u.rows = t.rows /\ u.alt_which = t.alt_which
      /\ u.screen = t.screen /\ u.alt_screen = t.alt_screen
      /\ u.scrollback = t.scrollback /\ u.alt_sblines = t.alt_sblines
      /\ u.selstart = t.selstart
  BY DEF Stored, Terminals
<1> HIDE DEF u
<1>2. Followed(u, t)
  BY <1>1, StillFollowed
<1> QED BY <1>2 DEF u

(* LF and its kind. *)
LEMMA LineFeedFollowed ==
    ASSUME cfg \in Configs, NEW n \in Nat, NEW t, Stored(t, n),
           t.selstate # "NO_SELECTION"
    PROVE  Followed(LineFeedOf(t), t)
<1>1. /\ t.rows = n /\ t.cursy \in 0 .. n-1
      /\ t.marg_t \in 0 .. n-1 /\ t.marg_b \in 0 .. n-1
  BY DEF Stored, Terminals
<1>2. CASE t.cursy = t.marg_b
  <2>1. PICK k \in Int, top \in Nat, bot \in 0 .. n-1 :
            k = 1 /\ top = t.marg_t /\ bot = t.marg_b
    BY <1>1
  <2>2. Followed(scroll(t, top, bot, k, TRUE), t)
    BY ScrollFollowed
  <2> QED BY <1>2, <2>1, <2>2 DEF LineFeedOf
<1>3. CASE t.cursy # t.marg_b /\ t.cursy < t.rows - 1
  <2>1. PICK y \in 0 .. n-1 : y = t.cursy + 1
    BY <1>1, <1>3
  <2>2. Followed([t EXCEPT !.cursy = y], t)
    BY CursorFollowed
  <2> QED BY <1>3, <2>1, <2>2 DEF LineFeedOf
<1>4. CASE t.cursy # t.marg_b /\ ~(t.cursy < t.rows - 1)
  BY <1>4, StillFollowed DEF LineFeedOf
<1> QED BY <1>2, <1>3, <1>4

(* RI, within whatever region of the screen. *)
LEMMA ReverseIndexFollowed ==
    ASSUME cfg \in Configs, NEW n \in Nat, NEW t, Stored(t, n),
           t.selstate # "NO_SELECTION", NEW top \in Nat, NEW bot \in 0 .. n-1
    PROVE  Followed(ReverseIndexOf(t, top, bot), t)
<1>1. t.cursy \in 0 .. n-1
  BY DEF Stored, Terminals
<1>2. CASE t.cursy = top
  <2>1. PICK k \in Int : k = -1
    OBVIOUS
  <2>2. Followed(scroll(t, top, bot, k, TRUE), t)
    BY ScrollFollowed
  <2> QED BY <1>2, <2>1, <2>2 DEF ReverseIndexOf
<1>3. CASE t.cursy # top /\ t.cursy > 0
  <2>1. PICK y \in 0 .. n-1 : y = t.cursy - 1
    BY <1>1, <1>3
  <2>2. Followed([t EXCEPT !.cursy = y], t)
    BY CursorFollowed
  <2> QED BY <1>3, <2>1, <2>2 DEF ReverseIndexOf
<1>4. CASE t.cursy # top /\ ~(t.cursy > 0)
  BY <1>4, StillFollowed DEF ReverseIndexOf
<1> QED BY <1>2, <1>3, <1>4

(* Each handler that scrolls, inserts or deletes lines. *)
LEMMA ScrollingFollowed ==
    ASSUME IInv, term.selstate # "NO_SELECTION",
           LineFeed \/ ReverseIndex \/ ScrollRegion \/ InsertLines \/ DeleteLines
    PROVE  Followed(term', term)
<1> DEFINE n == term.rows
<1>1. cfg \in Configs /\ n \in Heights /\ n \in Nat /\ n >= 1 /\ Stored(term, n)
  BY CfgFacts DEF IInv
<1>2. term.cursy \in 0 .. n-1 /\ term.marg_t \in 0 .. n-1 /\ term.marg_b \in 0 .. n-1
  BY <1>1 DEF Stored, Terminals
<1> HIDE DEF n
<1>3. CASE LineFeed
  BY <1>1, <1>3, LineFeedFollowed DEF LineFeed, Output
<1>4. CASE ReverseIndex
  <2>1. PICK top \in Nat, bot \in 0 .. n-1 : term' = ReverseIndexOf(term, top, bot)
    <3>1. term.marg_t \in Nat /\ 0 \in Nat /\ n - 1 \in 0 .. n-1
      BY <1>1, <1>2
    <3> QED BY <1>2, <1>4, <3>1 DEF ReverseIndex, Output, n
  <2> QED BY <1>1, <2>1, ReverseIndexFollowed
<1>5. CASE ScrollRegion
  <2>0. PICK k \in (-MaxCount .. MaxCount) \ {0} :
           term' = scroll(term, term.marg_t, term.marg_b, k, TRUE)
    BY <1>5 DEF ScrollRegion, Output
  <2>1. k \in Int
    BY <1>1, CfgFacts
  <2>2. PICK top \in Nat, bot \in 0 .. n-1 : top = term.marg_t /\ bot = term.marg_b
    BY <1>2
  <2>3. Followed(scroll(term, top, bot, k, TRUE), term)
    BY <1>1, <2>1, ScrollFollowed
  <2> QED BY <2>0, <2>2, <2>3
<1>6. CASE InsertLines
  <2>1. PICK j \in 1 .. MaxCount : term' = scroll(term, term.cursy, term.marg_b, -j, FALSE)
    BY <1>6 DEF InsertLines, Output
  <2>2. PICK top \in Nat, bot \in 0 .. n-1, k \in Int :
           top = term.cursy /\ bot = term.marg_b /\ k = -j
    BY <1>1, <1>2, CfgFacts
  <2>3. Followed(scroll(term, top, bot, k, FALSE), term)
    BY <1>1, ScrollFollowed
  <2> QED BY <2>1, <2>2, <2>3
<1>7. CASE DeleteLines
  <2>1. PICK j \in 1 .. MaxCount : term' = scroll(term, term.cursy, term.marg_b, j, TRUE)
    BY <1>7 DEF DeleteLines, Output
  <2>2. PICK top \in Nat, bot \in 0 .. n-1, k \in Int :
           top = term.cursy /\ bot = term.marg_b /\ k = j
    BY <1>1, <1>2, CfgFacts
  <2>3. Followed(scroll(term, top, bot, k, TRUE), term)
    BY <1>1, ScrollFollowed
  <2> QED BY <2>1, <2>2, <2>3
<1> QED BY <1>3, <1>4, <1>5, <1>6, <1>7

(* Whatever scrolls, is inserted or deleted, within whatever region and of whatever
   size of window and scrollback, a finished selection that begins on text found
   nowhere else begins on that text afterwards, unless it has left the buffer. *)
THEOREM SelectionKeepsToText == Spec => SelectionFollowsText
<1> DEFINE Step ==
      (/\ term.selstate = "SELECTED" /\ term.selstart \in BufferRows(term)
       /\ Sole(term, term.selstart)
       /\ Holds(term', lineptr(term, term.selstart).text)
       /\ LineFeed \/ ReverseIndex \/ ScrollRegion \/ InsertLines \/ DeleteLines)
      => /\ term'.selstart \in BufferRows(term')
         /\ lineptr(term', term'.selstart).text = lineptr(term, term.selstart).text
<1>1. IInv => Step
  <2> SUFFICES ASSUME IInv, term.selstate = "SELECTED", term.selstart \in BufferRows(term),
                      Sole(term, term.selstart),
                      Holds(term', lineptr(term, term.selstart).text),
                      LineFeed \/ ReverseIndex \/ ScrollRegion \/ InsertLines \/ DeleteLines
               PROVE  /\ term'.selstart \in BufferRows(term')
                      /\ lineptr(term', term'.selstart).text
                            = lineptr(term, term.selstart).text
    OBVIOUS
  <2>1. term.selstate # "NO_SELECTION"
    OBVIOUS
  <2>2. Followed(term', term)
    BY <2>1, ScrollingFollowed
  <2> QED BY <2>2, FollowedHolds
<1>2. IInv /\ [Next]_vars => [Step]_vars
  BY <1>1
<1> QED BY <1>2, AlwaysInvariant, PTL DEF Spec, SelectionFollowsText
=============================================================================
