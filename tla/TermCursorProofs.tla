-------------------------- MODULE TermCursorProofs --------------------------
(***************************************************************************)
(* Proofs about TermCursor for every size of the window, every bound on    *)
(* the arguments and every configuration.  Windows are at least two        *)
(* columns wide: with one column the code does put the cursor off the      *)
(* screen (WideChar, Tab).                                                 *)
(***************************************************************************)
EXTENDS TermCursor, TLAPS

WideEnough == \A c \in Widths : c > 1

(* State s suits a screen of r rows and c columns. *)
Fits(s, r, c) ==
    /\ s \in CursorState
    /\ s.x < c /\ s.y < r
    /\ s.top <= s.bot /\ s.bot < r
    /\ r > 1 => s.top < s.bot

(* The inductive invariant: neither the cursor nor the margins alone are
   preserved, because a line feed relies on both and so does every exchange
   of the screens. *)
IInv ==
    /\ rows \in Heights /\ cols \in Widths
    /\ alt_which \in {0, 1} /\ vt52_mode \in BOOLEAN
    /\ Fits(cur, rows, cols) /\ Fits(alt, rows, cols)

(* The sizes of the screen, for the arithmetic provers. *)
LEMMA SizeFacts ==
    ASSUME WideEnough, IInv
    PROVE  /\ rows \in Int /\ cols \in Int /\ rows >= 1 /\ cols >= 2
           /\ \A r \in Heights : r \in Int /\ r >= 1
           /\ \A c \in Widths : c \in Int /\ c >= 2
<1>1. \A r \in Heights : r \in Int /\ r >= 1
  BY SizesAssumption
<1>2. ASSUME NEW c \in Widths PROVE c \in Int /\ c >= 2
  <2>1. c \in Nat
    BY SizesAssumption
  <2>2. c > 1
    BY DEF WideEnough
  <2> QED BY <2>1, <2>2
<1> QED BY <1>1, <1>2 DEF IInv

(* What IInv gives: the invariants the runs check. *)
LEMMA IInvImplies ==
    ASSUME WideEnough, IInv
    PROVE  TypeOK /\ CursorOnScreen /\ MarginsOnScreen
BY SizeFacts
   DEF IInv, Fits, TypeOK, CursorOnScreen, MarginsOnScreen, OnScreenOK, RegionOK,
       CursorState

-----------------------------------------------------------------------------
(* Each operator on cursor states keeps the cursor on the screen. *)

(* A reset leaves a cursor state that suits the screen (power_on()). *)
LEMMA PowerOnFits ==
    ASSUME NEW r \in Int, NEW c \in Int, r >= 1, c >= 2, NEW y \in 0 .. r - 1
    PROVE  Fits(PowerOnState(y, r), r, c)
BY ConfigAssumption DEF PowerOnState, Fits, CursorState

(* The cursor put in another cell. *)
LEMMA PlacedFits ==
    ASSUME NEW r \in Int, NEW c \in Int, NEW s, Fits(s, r, c),
           NEW x \in 0 .. c - 1, NEW y \in 0 .. r - 1, NEW b \in BOOLEAN
    PROVE  /\ Fits([s EXCEPT !.x = x], r, c)
           /\ Fits([s EXCEPT !.wnext = b], r, c)
           /\ Fits([s EXCEPT !.x = x, !.wnext = b], r, c)
           /\ Fits([s EXCEPT !.x = x, !.y = y, !.wnext = b], r, c)
<1>1. /\ s \in CursorState /\ x \in Nat /\ y \in Nat
      /\ s.top \in Nat /\ s.bot \in Nat
  BY DEF Fits, CursorState
<1>2. Fits([s EXCEPT !.x = x], r, c)
  BY DEF Fits, CursorState
<1>3. Fits([s EXCEPT !.wnext = b], r, c)
  BY DEF Fits, CursorState
<1>4. Fits([s EXCEPT !.x = x, !.wnext = b], r, c)
  <2> DEFINE u == [s EXCEPT !.x = x, !.wnext = b]
  <2>1. u \in CursorState
    BY <1>1 DEF CursorState
  <2>2. u.x = x /\ u.y = s.y /\ u.top = s.top /\ u.bot = s.bot
    BY <1>1 DEF CursorState
  <2> HIDE DEF u
  <2>3. Fits(u, r, c)
    BY <1>1, <2>1, <2>2 DEF Fits
  <2> QED BY <2>3 DEF u
<1>5. Fits([s EXCEPT !.x = x, !.y = y, !.wnext = b], r, c)
  <2> DEFINE u == [s EXCEPT !.x = x, !.y = y, !.wnext = b]
  <2>1. u \in CursorState
    BY <1>1 DEF CursorState
  <2>2. u.x = x /\ u.y = y /\ u.top = s.top /\ u.bot = s.bot
    BY <1>1 DEF CursorState
  <2> HIDE DEF u
  <2>3. Fits(u, r, c)
    BY <1>1, <2>1, <2>2 DEF Fits
  <2> QED BY <2>3 DEF u
<1> QED BY <1>2, <1>3, <1>4, <1>5

(* move() clips any target to the screen, whatever the margins say. *)
LEMMA MoveFits ==
    ASSUME WideEnough, IInv, NEW x \in Int, NEW y \in Int, NEW clip \in {0, 1, 2}
    PROVE  Fits(move(cur, x, y, clip), rows, cols)
<1>1. RegionClip(cur, y, clip) \in Int
  BY DEF RegionClip, IInv, Fits, CursorState
<1> DEFINE px == Greater(0, Lesser(x, cols - 1))
           py == Lesser(Greater(RegionClip(cur, y, clip), 0), rows - 1)
<1>2. px \in 0 .. cols - 1 /\ py \in 0 .. rows - 1
  BY <1>1, SizeFacts DEF Greater, Lesser
<1>3. move(cur, x, y, clip) = [cur EXCEPT !.x = px, !.y = py, !.wnext = FALSE]
  BY DEF move
<1> HIDE DEF px, py
<1>4. Fits([cur EXCEPT !.x = px, !.y = py, !.wnext = FALSE], rows, cols)
  BY <1>2, PlacedFits, SizeFacts DEF IInv
<1> QED BY <1>3, <1>4

(* A line feed stops at the bottom margin or at the bottom of the screen. *)
LEMMA LineDownFits ==
    ASSUME WideEnough, IInv, NEW s, Fits(s, rows, cols)
    PROVE  Fits(LineDown(s), rows, cols)
BY SizeFacts DEF LineDown, Fits, CursorState

(* So does the wrap to the next line. *)
LEMMA WrappedFits ==
    ASSUME WideEnough, IInv, NEW s, Fits(s, rows, cols)
    PROVE  /\ Fits(Wrapped(s), rows, cols)
           /\ Fits(PendingWrap(s), rows, cols)
           /\ Fits(NotInLastColumn(s), rows, cols)
<1>1. Fits(LineDown(s), rows, cols)
  BY LineDownFits
<1>2. 0 \in 0 .. cols - 1 /\ 0 \in 0 .. rows - 1
  BY SizeFacts
<1>3. Fits([LineDown(s) EXCEPT !.x = 0], rows, cols)
  BY <1>1, <1>2, PlacedFits, SizeFacts
<1>4. Fits([LineDown(s) EXCEPT !.x = 0, !.wnext = FALSE], rows, cols)
  BY <1>1, <1>2, PlacedFits, SizeFacts
<1> QED BY <1>3, <1>4 DEF Wrapped, PendingWrap, NotInLastColumn

(* A character that does not start in the last column leaves room for the
   second half of a double-width one. *)
LEMMA RoomForWide ==
    ASSUME WideEnough, IInv, NEW s, Fits(s, rows, cols)
    PROVE  NotInLastColumn(s).x + 1 \in 0 .. cols - 1
<1>1. s.x \in 0 .. cols - 1
  BY SizeFacts DEF Fits, CursorState
<1>2. CASE s.x = cols - 1
  <2>1. LineDown(s) \in CursorState
    BY LineDownFits DEF Fits
  <2>2. [LineDown(s) EXCEPT !.x = 0].x = 0
    BY <2>1 DEF CursorState
  <2> QED BY <1>2, <2>2, SizeFacts DEF NotInLastColumn
<1>3. CASE s.x # cols - 1
  BY <1>1, <1>3, SizeFacts DEF NotInLastColumn
<1> QED BY <1>2, <1>3

(* After a character the cursor steps right, wraps or stays with a wrap pending;
   it never leaves the line. *)
LEMMA AdvancedFits ==
    ASSUME WideEnough, IInv, NEW s, Fits(s, rows, cols)
    PROVE  Fits(Advanced(s), rows, cols)
<1>0. 0 \in 0 .. cols - 1 /\ 0 \in 0 .. rows - 1
  BY SizeFacts
<1>1. CASE s.x + 1 # cols
  <2>1. s.x + 1 \in 0 .. cols - 1
    BY <1>1, SizeFacts DEF Fits, CursorState
  <2>2. Fits([s EXCEPT !.x = s.x + 1], rows, cols)
    BY <1>0, <2>1, PlacedFits, SizeFacts
  <2> QED BY <1>1, <2>2 DEF Advanced
<1>2. CASE s.x + 1 = cols
  <2>1. Fits([s EXCEPT !.wnext = TRUE], rows, cols)
    BY <1>0, PlacedFits, SizeFacts
  <2> QED BY <1>2, <2>1, WrappedFits DEF Advanced
<1> QED BY <1>1, <1>2

(* Saving the cursor does not move it (save_cursor()). *)
LEMMA SavedFits ==
    ASSUME WideEnough, IInv, NEW s, Fits(s, rows, cols)
    PROVE  Fits(Saved(s), rows, cols)
BY SizeFacts DEF Saved, Fits, CursorState

(* However stale a saved position is, restoring it lands on the screen. *)
LEMMA RestoredFits ==
    ASSUME WideEnough, IInv, NEW s, Fits(s, rows, cols)
    PROVE  Fits(Restored(s), rows, cols)
<1> DEFINE x == Lesser(s.sx, cols - 1)
           y == Lesser(s.sy, rows - 1)
           b == s.swnext /\ x >= cols - 1
<1>1. s.sx \in Nat /\ s.sy \in Nat
  BY DEF Fits, CursorState
<1>2. x \in 0 .. cols - 1 /\ y \in 0 .. rows - 1
  BY <1>1, SizeFacts DEF Lesser
<1>3. b \in BOOLEAN
  OBVIOUS
<1>4. Restored(s) = [s EXCEPT !.x = x, !.y = y, !.wnext = b]
  BY DEF Restored
<1> HIDE DEF x, y, b
<1>5. Fits([s EXCEPT !.x = x, !.y = y, !.wnext = b], rows, cols)
  BY <1>2, <1>3, PlacedFits, SizeFacts
<1> QED BY <1>4, <1>5

(* Margins put back to the whole screen suit it. *)
LEMMA FullRegionFits ==
    ASSUME NEW r \in Int, NEW c \in Int, r >= 1, NEW s \in CursorState
    PROVE  /\ FullRegion(s, r) \in CursorState
           /\ FullRegion(s, r).top = 0 /\ FullRegion(s, r).bot = r - 1
           /\ FullRegion(s, r).x = s.x /\ FullRegion(s, r).y = s.y
           /\ FullRegion(s, r).sx = s.sx /\ FullRegion(s, r).sy = s.sy
           /\ s.x < c /\ s.y < r => Fits(FullRegion(s, r), r, c)
<1> DEFINE u == FullRegion(s, r)
           b == r - 1
<1>0. b \in Nat /\ u = [s EXCEPT !.top = 0, !.bot = b]
  BY DEF FullRegion
<1> HIDE DEF b, u
<1>1. u \in CursorState
  BY <1>0 DEF CursorState
<1>2. /\ u.top = 0 /\ u.bot = b
      /\ u.x = s.x /\ u.y = s.y /\ u.sx = s.sx /\ u.sy = s.sy
  BY <1>0 DEF CursorState
<1>3. s.x < c /\ s.y < r => Fits(u, r, c)
  BY <1>1, <1>2 DEF Fits, b
<1> QED BY <1>1, <1>2, <1>3 DEF u, b

(* What swap_screen() brings into use, whatever of it is carried over. *)
LEMMA SwapFits ==
    ASSUME WideEnough, IInv, NEW which \in {0, 1},
           NEW reset \in BOOLEAN, NEW keep \in BOOLEAN
    PROVE  /\ Fits(swap_screen(which, reset, keep), rows, cols)
           /\ Fits(SwappedOut(which), rows, cols)
<1>1. Fits([alt EXCEPT !.x = cur.x, !.y = cur.y, !.sx = cur.sx, !.sy = cur.sy,
                       !.swnext = cur.swnext], rows, cols)
  BY SizeFacts DEF IInv, Fits, CursorState
<1> QED BY <1>1 DEF swap_screen, Exchanged, SwappedOut, IInv

(* term_size() puts the cursor of either screen on the screen's new size. *)
LEMMA SizedFits ==
    ASSUME WideEnough, IInv, NEW s, Fits(s, rows, cols), NEW main \in BOOLEAN,
           NEW r \in Int, r >= 1, NEW c \in Int, c >= 2,
           NEW back \in Nat
    PROVE  Fits(Sized(s, main, r, c, back), r, c)
<1> DEFINE f == FullRegion(s, r)
<1>1. /\ s \in CursorState
      /\ s.x \in Nat /\ s.y \in Nat /\ s.sy \in Nat
  BY DEF Fits, CursorState
<1>2. /\ f \in CursorState /\ f.top = 0 /\ f.bot = r - 1
      /\ f.x = s.x /\ f.sy = s.sy
  BY <1>1, FullRegionFits
<1>3. Fits(MainSized(s, r, c, back), r, c)
  <2> DEFINE x  == Lesser(s.x, c - 1)
             y  == OnScreen(RowAfter(s, r, back), r)
             sy == OnScreen(s.sy + RowAfter(s, r, back) - s.y, r)
             u  == [f EXCEPT !.x = x, !.y = y, !.sy = sy, !.wnext = FALSE]
  <2>1. RowAfter(s, r, back) \in Int
    BY <1>1, SizeFacts DEF RowAfter, Lesser
  <2>2. /\ x \in Nat /\ x < c
        /\ y \in Nat /\ y < r
        /\ sy \in Nat
    BY <1>1, <2>1 DEF OnScreen, Lesser, Greater
  <2>3. MainSized(s, r, c, back) = u
    BY <1>2 DEF MainSized
  <2> HIDE DEF f, x, y, sy
  <2>4. u \in CursorState
    BY <1>2, <2>2 DEF CursorState
  <2>5. u.x = x /\ u.y = y /\ u.top = 0 /\ u.bot = r - 1
    BY <1>2, <2>2 DEF CursorState
  <2> HIDE DEF u
  <2>6. Fits(u, r, c)
    BY <2>2, <2>4, <2>5 DEF Fits
  <2> QED BY <2>3, <2>6
<1>4. Fits(AltSized(s, r), r, c)
  <2> DEFINE u == [f EXCEPT !.x = 0, !.y = 0, !.wnext = FALSE]
  <2>1. AltSized(s, r) = u
    BY DEF AltSized
  <2> HIDE DEF f
  <2>2. u \in CursorState
    BY <1>2 DEF CursorState
  <2>3. u.x = 0 /\ u.y = 0 /\ u.top = 0 /\ u.bot = r - 1
    BY <1>2 DEF CursorState
  <2> HIDE DEF u
  <2>4. Fits(u, r, c)
    BY <2>2, <2>3 DEF Fits
  <2> QED BY <2>1, <2>4
<1> QED BY <1>3, <1>4 DEF Sized

-----------------------------------------------------------------------------
(* The invariant. *)

(* The terminal starts in a state that suits its size. *)
LEMMA InitIInv == ASSUME WideEnough, Init PROVE IInv
<1>1. rows \in Int /\ rows >= 1 /\ cols \in Int /\ cols >= 2
  BY SizesAssumption DEF Init, WideEnough
<1>2. 0 \in 0 .. rows - 1
  BY <1>1
<1> QED BY <1>1, <1>2, PowerOnFits DEF Init, IInv

(* An action that only changes the state of the screen in use. *)
LEMMA CurStep ==
    ASSUME IInv, UNCHANGED Others, Fits(cur', rows, cols)
    PROVE  IInv'
BY DEF IInv, Others

(* Printing characters, of one column and of two, keep the invariant. *)
LEMMA CharacterStep ==
    ASSUME WideEnough, IInv, Char \/ WideChar
    PROVE  IInv'
<1> DEFINE s == PendingWrap(cur)
<1>1. Fits(s, rows, cols) /\ Fits(NotInLastColumn(s), rows, cols)
  BY WrappedFits DEF IInv
<1>2. CASE Char
  <2>1. PICK lead \in BOOLEAN : cur' = Advanced(IF lead THEN NotInLastColumn(s) ELSE s)
    BY <1>2 DEF Char
  <2>2. Fits(cur', rows, cols)
    BY <1>1, <2>1, AdvancedFits
  <2> QED BY <1>2, <2>2, CurStep DEF Char
<1>3. CASE WideChar
  <2> DEFINE u == NotInLastColumn(s)
  <2>1. u.x + 1 \in 0 .. cols - 1
    BY <1>1, RoomForWide
  <2>2. 0 \in 0 .. rows - 1 /\ FALSE \in BOOLEAN
    BY SizeFacts
  <2> HIDE DEF u
  <2>3. Fits([u EXCEPT !.x = u.x + 1], rows, cols)
    BY <1>1, <2>1, <2>2, PlacedFits, SizeFacts DEF u
  <2>4. cur' = Advanced([u EXCEPT !.x = u.x + 1])
    BY <1>3 DEF WideChar, u
  <2>5. Fits(cur', rows, cols)
    BY <2>3, <2>4, AdvancedFits
  <2> QED BY <1>3, <2>5, CurStep DEF WideChar
<1> QED BY <1>2, <1>3

(* Control characters and scrolls of the region keep the invariant. *)
LEMMA ControlStep ==
    ASSUME WideEnough, IInv,
           \/ Backspace \/ Delete \/ CarriageReturn \/ LineFeed \/ ReverseIndex
           \/ Tab \/ BackTab \/ ScrollRegion \/ SetMode
    PROVE  IInv'
<1>1. /\ cur \in CursorState /\ cur.x \in 0 .. cols - 1 /\ cur.y \in 0 .. rows - 1
      /\ Fits(cur, rows, cols)
      /\ rows \in Int /\ cols \in Int
  BY SizeFacts DEF IInv, Fits, CursorState
<1>2. 0 \in 0 .. cols - 1 /\ 0 \in 0 .. rows - 1 /\ cols - 1 \in 0 .. cols - 1
  BY SizeFacts
<1>3. CASE Backspace
  <2>1. CASE cur.x = 0 /\ ~(cur.y = 0 \/ ~cur.wrap)
    <3>1. cur' = [cur EXCEPT !.x = cols - 1, !.y = cur.y - 1]
      BY <1>3, <2>1 DEF Backspace, Backspaced
    <3> DEFINE x == cols - 1
               y == cur.y - 1
               u == [cur EXCEPT !.x = x, !.y = y]
    <3>2. x \in Nat /\ x < cols /\ y \in Nat /\ y < rows
      BY <1>1, <1>2, <2>1
    <3> HIDE DEF x, y
    <3>3. u \in CursorState
      BY <1>1, <3>2 DEF CursorState
    <3>4. u.x = x /\ u.y = y /\ u.top = cur.top /\ u.bot = cur.bot
      BY <1>1 DEF CursorState
    <3> HIDE DEF u
    <3>5. Fits(u, rows, cols)
      BY <1>1, <3>2, <3>3, <3>4 DEF Fits
    <3>6. cur' = u
      BY <3>1 DEF u, x, y
    <3> QED BY <1>3, <3>5, <3>6, CurStep DEF Backspace
  <2>2. CASE cur.x = 0 /\ (cur.y = 0 \/ ~cur.wrap)
    BY <1>1, <1>3, <2>2, CurStep DEF Backspace, Backspaced
  <2>3. CASE cur.x # 0 /\ cur.wnext
    <3>1. cur' = [cur EXCEPT !.wnext = FALSE]
      BY <1>3, <2>3 DEF Backspace, Backspaced
    <3>2. Fits(cur', rows, cols)
      BY <1>1, <1>2, <3>1, PlacedFits
    <3> QED BY <1>3, <3>2, CurStep DEF Backspace
  <2>4. CASE cur.x # 0 /\ ~cur.wnext
    <3>1. cur' = [cur EXCEPT !.x = cur.x - 1]
      BY <1>3, <2>4 DEF Backspace, Backspaced
    <3>2. cur.x - 1 \in 0 .. cols - 1
      BY <1>1, <2>4
    <3> DEFINE x == cur.x - 1
    <3> HIDE DEF x
    <3>3. Fits([cur EXCEPT !.x = x], rows, cols)
      BY <1>1, <1>2, <3>2, PlacedFits DEF x
    <3> QED BY <1>3, <3>1, <3>3, CurStep DEF Backspace, x
  <2> QED BY <2>1, <2>2, <2>3, <2>4
<1>4. CASE Delete
  <2> DEFINE x == IF cur.x # 0 /\ ~cur.wnext THEN cur.x - 1 ELSE cur.x
  <2>1. x \in 0 .. cols - 1
    BY <1>1
  <2>2. cur' = [cur EXCEPT !.x = x, !.wnext = FALSE]
    BY <1>4 DEF Delete
  <2> HIDE DEF x
  <2>3. Fits(cur', rows, cols)
    BY <1>1, <1>2, <2>1, <2>2, PlacedFits
  <2> QED BY <1>4, <2>3, CurStep DEF Delete
<1>5. CASE CarriageReturn
  BY <1>1, <1>2, <1>5, PlacedFits, CurStep DEF CarriageReturn
<1>6. CASE LineFeed
  <2>1. PICK cr \in BOOLEAN :
           cur' = [LineDown(cur) EXCEPT !.x = IF cr THEN 0 ELSE @, !.wnext = FALSE]
    BY <1>6 DEF LineFeed
  <2> DEFINE d == LineDown(cur)
             x == IF cr THEN 0 ELSE d.x
  <2>2. Fits(d, rows, cols)
    BY <1>1, LineDownFits
  <2> HIDE DEF d
  <2>3. x \in 0 .. cols - 1
    BY <1>1, <1>2, <2>2 DEF Fits, CursorState
  <2>4. cur' = [d EXCEPT !.x = x, !.wnext = FALSE]
    BY <2>1 DEF d
  <2> HIDE DEF x
  <2> QED BY <1>1, <1>2, <1>6, <2>2, <2>3, <2>4, PlacedFits, CurStep DEF LineFeed
<1>7. CASE ReverseIndex
  <2>1. PICK top \in {0, cur.top} : cur' = [LineUp(cur, top) EXCEPT !.wnext = FALSE]
    BY <1>7 DEF ReverseIndex
  <2> DEFINE y == IF cur.y # top /\ cur.y > 0 THEN cur.y - 1 ELSE cur.y
  <2>2. y \in 0 .. rows - 1
    BY <1>1
  <2>3. cur' = [[cur EXCEPT !.y = y] EXCEPT !.wnext = FALSE]
    BY <2>1 DEF LineUp
  <2> HIDE DEF y
  <2>4. Fits([cur EXCEPT !.y = y], rows, cols)
    BY <1>1, <2>2 DEF Fits, CursorState
  <2> QED BY <1>1, <1>2, <1>7, <2>3, <2>4, PlacedFits, CurStep DEF ReverseIndex
<1>8. CASE Tab
  <2>1. PICK c \in cur.x + 1 .. Greater(cols - 1, cur.x + 1), double \in BOOLEAN :
           cur' = [cur EXCEPT !.x = Lesser(c, (IF double THEN cols \div 2 ELSE cols) - 1)]
    BY <1>8 DEF Tab
  <2>2. cols \div 2 \in 1 .. cols
    BY SizeFacts
  <2> DEFINE w == (IF double THEN cols \div 2 ELSE cols) - 1
             x == Lesser(c, w)
  <2>3. w \in 0 .. cols - 1
    BY <2>2, SizeFacts
  <2>4. c \in Int /\ c >= 0
    BY <1>1 DEF Greater
  <2> HIDE DEF w
  <2>5. x \in 0 .. cols - 1
    BY <1>1, <2>3, <2>4 DEF Lesser
  <2>6. cur' = [cur EXCEPT !.x = x]
    BY <2>1 DEF w
  <2> HIDE DEF x
  <2> QED BY <1>1, <1>2, <1>8, <2>5, <2>6, PlacedFits, CurStep DEF Tab
<1>9. CASE BackTab
  <2>1. PICK c \in 0 .. cur.x - 1 : cur' = [cur EXCEPT !.x = c]
    BY <1>9 DEF BackTab
  <2>2. c \in 0 .. cols - 1
    BY <1>1
  <2> QED BY <1>1, <1>2, <1>9, <2>1, <2>2, PlacedFits, CurStep DEF BackTab
<1>10. CASE ScrollRegion
  BY <1>1, <1>2, <1>10, PlacedFits, CurStep DEF ScrollRegion
<1>11. CASE SetMode
  <2>1. PICK state \in BOOLEAN :
           cur' = [cur EXCEPT !.om = state] \/ cur' = [cur EXCEPT !.wrap = state]
    BY <1>11 DEF SetMode
  <2>2. Fits([cur EXCEPT !.om = state], rows, cols)
    BY <1>1 DEF Fits, CursorState
  <2>3. Fits([cur EXCEPT !.wrap = state], rows, cols)
    BY <1>1 DEF Fits, CursorState
  <2> QED BY <1>11, <2>1, <2>2, <2>3, CurStep DEF SetMode
<1> QED BY <1>3, <1>4, <1>5, <1>6, <1>7, <1>8, <1>9, <1>10, <1>11

(* Cursor moves, relative and absolute, keep the invariant. *)
LEMMA MoveStep ==
    ASSUME WideEnough, IInv, MoveBy \/ MoveTo \/ SetPosition
    PROVE  IInv'
<1>1. \A n \in Args : n \in Int /\ n - 1 \in Int
  BY MaxArgAssumption DEF Args
<1>2. cur.x \in Int /\ cur.y \in Int /\ cur.top \in Int
  BY DEF IInv, Fits, CursorState
<1>3. CASE MoveBy
  <2>1. PICK x \in Int, y \in Int : cur' = move(cur, x, y, 1)
    <3>1. PICK n \in Args :
             \/ \E dy \in {-n, n} : \E x \in {0, cur.x} : cur' = move(cur, x, cur.y + dy, 1)
             \/ \E dx \in {-n, n} : cur' = move(cur, cur.x + dx, cur.y, 1)
      BY <1>3 DEF MoveBy
    <3>2. CASE \E dy \in {-n, n} : \E x \in {0, cur.x} : cur' = move(cur, x, cur.y + dy, 1)
      <4>1. PICK dy \in {-n, n}, x \in {0, cur.x} : cur' = move(cur, x, cur.y + dy, 1)
        BY <3>2
      <4>2. x \in Int /\ cur.y + dy \in Int
        BY <1>1, <1>2
      <4> QED BY <4>1, <4>2
    <3>3. CASE \E dx \in {-n, n} : cur' = move(cur, cur.x + dx, cur.y, 1)
      <4>1. PICK dx \in {-n, n} : cur' = move(cur, cur.x + dx, cur.y, 1)
        BY <3>3
      <4>2. cur.x + dx \in Int
        BY <1>1, <1>2
      <4> QED BY <1>2, <4>1, <4>2
    <3> QED BY <3>1, <3>2, <3>3
  <2> QED BY <1>3, <2>1, MoveFits, CurStep DEF MoveBy
<1>4. CASE MoveTo
  <2>1. PICK n \in Args : \/ cur' = move(cur, n - 1, cur.y, 0)
                          \/ cur' = move(cur, cur.x, n - 1, 0)
                          \/ cur' = move(cur, 0, 0, 0)
    BY <1>4 DEF MoveTo
  <2>2. n - 1 \in Int
    BY <1>1
  <2>3. Fits(cur', rows, cols)
    BY <1>2, <2>1, <2>2, MoveFits
  <2> QED BY <1>4, <2>3, CurStep DEF MoveTo
<1>5. CASE SetPosition
  <2>1. PICK n \in Args, x \in {cur.x} \union {m - 1 : m \in Args} :
           cur' = move(cur, x, (IF cur.om THEN cur.top ELSE 0) + n - 1,
                       IF cur.om THEN 2 ELSE 0)
    BY <1>5 DEF SetPosition
  <2> DEFINE y == (IF cur.om THEN cur.top ELSE 0) + n - 1
             clip == IF cur.om THEN 2 ELSE 0
  <2>2. x \in Int /\ y \in Int /\ clip \in {0, 1, 2}
    BY <1>1, <1>2
  <2>3. cur' = move(cur, x, y, clip)
    BY <2>1
  <2> HIDE DEF y, clip
  <2> QED BY <1>5, <2>2, <2>3, MoveFits, CurStep DEF SetPosition
<1> QED BY <1>3, <1>4, <1>5

(* Saving and restoring the cursor, DECSTBM and the modes keep the invariant. *)
LEMMA SaveAndMarginsStep ==
    ASSUME WideEnough, IInv, SaveCursor \/ RestoreCursor \/ SetMargins
    PROVE  IInv'
<1>1. CASE SaveCursor
  BY <1>1, SavedFits, CurStep DEF SaveCursor, IInv
<1>2. CASE RestoreCursor
  BY <1>2, RestoredFits, CurStep DEF RestoreCursor, IInv
<1>3. CASE SetMargins
  <2>1. PICK top \in Args, last \in Args \union {rows} :
           LET bot == Lesser(last, rows) - 1
           IN  /\ bot - (top - 1) > 0
               /\ cur' = [cur EXCEPT !.top = top - 1, !.bot = bot, !.x = 0,
                                     !.y = IF cur.om THEN top - 1 ELSE 0]
    BY <1>3 DEF SetMargins
  <2> DEFINE t == top - 1
             b == Lesser(last, rows) - 1
             y == IF cur.om THEN t ELSE 0
             u == [cur EXCEPT !.top = t, !.bot = b, !.x = 0, !.y = y]
  <2>2. /\ cur' = u /\ b - t > 0
    BY <2>1
  <2>3. /\ t \in Nat /\ b \in Nat /\ t < b /\ b < rows
        /\ y \in Nat /\ y < rows /\ rows \in Int /\ 0 < cols
    BY <2>2, SizeFacts, MaxArgAssumption DEF Args, Lesser
  <2>4. cur \in CursorState
    BY DEF IInv, Fits
  <2> HIDE DEF t, b, y
  <2>5. u \in CursorState
    BY <2>3, <2>4 DEF CursorState
  <2>6. u.top = t /\ u.bot = b /\ u.x = 0 /\ u.y = y
    BY <2>4 DEF CursorState
  <2> HIDE DEF u
  <2>7. Fits(u, rows, cols)
    BY <2>3, <2>5, <2>6 DEF Fits
  <2> QED BY <1>3, <2>2, <2>7, CurStep DEF SetMargins
<1> QED BY <1>1, <1>2, <1>3

(* The private modes that exchange the screens keep the invariant. *)
LEMMA ScreenStep ==
    ASSUME WideEnough, IInv, Mode47 \/ Mode1047 \/ Enter1049 \/ Leave1049
    PROVE  IInv'
<1>1. /\ alt_which' \in {0, 1} /\ UNCHANGED <<rows, cols, vt52_mode>>
      /\ Fits(cur', rows, cols) /\ Fits(alt', rows, cols)
  <2>1. CASE Mode47
    BY <2>1, SwapFits DEF Mode47, ToScreen
  <2>2. CASE Mode1047
    BY <2>2, SwapFits DEF Mode1047, ToScreen
  <2>3. CASE Enter1049
    BY <2>3, SavedFits DEF Enter1049, ToScreen, IInv
  <2>4. CASE Leave1049
    <3>1. /\ Fits(swap_screen(0, TRUE, FALSE), rows, cols)
          /\ Fits(SwappedOut(0), rows, cols)
      BY SwapFits
    <3> QED BY <2>4, <3>1, RestoredFits DEF Leave1049, ToScreen
  <2> QED BY <2>1, <2>2, <2>3, <2>4
<1> QED BY <1>1 DEF IInv

(* Column mode, resets and resizes, which change both screens, keep the
   invariant. *)
LEMMA SizeStep ==
    ASSUME WideEnough, IInv, ColumnMode \/ PowerOn \/ Resize
    PROVE  IInv'
<1>1. CASE ColumnMode
  <2>1. PICK c \in Widths \union {cols}, sized \in BOOLEAN :
           /\ sized <=> c # cols
           /\ cols' = c
           /\ cur' = [FullRegion(cur, rows) EXCEPT !.x = 0, !.y = 0, !.wnext = FALSE,
                         !.sy = IF sized /\ alt_which = 0 THEN OnScreen(@, rows) ELSE @]
           /\ alt' = IF sized THEN Sized(alt, alt_which = 1, rows, c, 0)
                     ELSE FullRegion(alt, rows)
           /\ UNCHANGED <<rows, alt_which, vt52_mode>>
    BY <1>1 DEF ColumnMode
  <2>2. /\ c \in Widths /\ c \in Int /\ c >= 2 /\ rows \in Int /\ rows >= 1
        /\ Fits(cur, rows, cols) /\ Fits(alt, rows, cols)
    BY SizeFacts DEF IInv
  <2>3. Fits(alt', rows, c)
    <3>1. CASE sized
      <4>1. (alt_which = 1) \in BOOLEAN /\ 0 \in Nat
        OBVIOUS
      <4>2. Fits(Sized(alt, alt_which = 1, rows, c, 0), rows, c)
        BY <2>2, <4>1, SizedFits
      <4> QED BY <2>1, <3>1, <4>2
    <3>2. CASE ~sized
      <4>1. alt \in CursorState /\ alt.x < cols /\ alt.y < rows
        BY <2>2 DEF Fits
      <4>2. Fits(FullRegion(alt, rows), rows, c)
        BY <2>1, <2>2, <3>2, <4>1, FullRegionFits
      <4> QED BY <2>1, <3>2, <4>2
    <3> QED BY <3>1, <3>2
  <2>4. Fits(cur', rows, c)
    <3> DEFINE f == FullRegion(cur, rows)
               y == IF sized /\ alt_which = 0 THEN OnScreen(f.sy, rows) ELSE f.sy
               u == [f EXCEPT !.x = 0, !.y = 0, !.wnext = FALSE, !.sy = y]
    <3>1. cur \in CursorState
      BY <2>2 DEF Fits
    <3>2. f \in CursorState /\ f.top = 0 /\ f.bot = rows - 1
      BY <2>2, <3>1, FullRegionFits
    <3>3. cur' = u
      BY <2>1
    <3> HIDE DEF f
    <3>4. f.sy \in Nat
      BY <3>2 DEF CursorState
    <3>5. y \in Nat
      BY <2>2, <3>4 DEF OnScreen, Lesser, Greater
    <3> HIDE DEF y
    <3>6. u \in CursorState
      BY <3>2, <3>5 DEF CursorState
    <3>7. u.x = 0 /\ u.y = 0 /\ u.top = 0 /\ u.bot = rows - 1
      BY <3>2 DEF CursorState
    <3> HIDE DEF u
    <3>8. Fits(u, rows, c)
      BY <2>2, <3>6, <3>7 DEF Fits
    <3> QED BY <3>3, <3>8
  <2> QED BY <2>1, <2>2, <2>3, <2>4 DEF IInv
<1>2. CASE PowerOn
  <2>1. PICK y \in 0 .. rows - 1 : cur' = PowerOnState(y, rows)
    BY <1>2 DEF PowerOn
  <2>2. /\ cols' \in Widths /\ cols' \in Int /\ cols' >= 2
        /\ rows \in Int /\ rows >= 1 /\ 0 \in 0 .. rows - 1
    BY <1>2, SizeFacts DEF PowerOn, IInv
  <2>3. Fits(cur', rows, cols') /\ Fits(alt', rows, cols')
    BY <1>2, <2>1, <2>2, PowerOnFits DEF PowerOn
  <2> QED BY <1>2, <2>2, <2>3 DEF PowerOn, IInv
<1>3. CASE Resize
  <2>1. PICK r \in Heights, c \in Widths :
           /\ rows' = r /\ cols' = c
           /\ \E back \in 0 .. Greater(r - rows, 0) :
                 /\ cur' = Sized(cur, alt_which = 0, r, c, back)
                 /\ alt' = Sized(alt, alt_which = 1, r, c, back)
           /\ UNCHANGED <<alt_which, vt52_mode>>
    BY <1>3 DEF Resize
  <2>2. PICK back \in 0 .. Greater(r - rows, 0) :
           /\ cur' = Sized(cur, alt_which = 0, r, c, back)
           /\ alt' = Sized(alt, alt_which = 1, r, c, back)
    BY <2>1
  <2>3. /\ r \in Int /\ r >= 1 /\ c \in Int /\ c >= 2 /\ back \in Nat
        /\ (alt_which = 0) \in BOOLEAN /\ (alt_which = 1) \in BOOLEAN
        /\ Fits(cur, rows, cols) /\ Fits(alt, rows, cols)
    BY SizeFacts DEF IInv
  <2>4. Fits(Sized(cur, alt_which = 0, r, c, back), r, c)
    BY <2>3, SizedFits
  <2>5. Fits(Sized(alt, alt_which = 1, r, c, back), r, c)
    BY <2>3, SizedFits
  <2> QED BY <2>1, <2>2, <2>4, <2>5 DEF IInv
<1> QED BY <1>1, <1>2, <1>3

(* Every step of the terminal keeps the invariant. *)
LEMMA StepIInv == ASSUME WideEnough, IInv, [Next]_vars PROVE IInv'
<1>1. CASE Next
  <2>1. CASE SetVT52
    BY <2>1 DEF SetVT52, IInv
  <2> QED BY <1>1, <2>1, CharacterStep, ControlStep, MoveStep, SaveAndMarginsStep,
             ScreenStep, SizeStep DEF Next
<1>2. CASE UNCHANGED vars
  BY <1>2 DEF vars, IInv
<1> QED BY <1>1, <1>2

(* The invariant holds in every reachable state. *)
LEMMA SpecIInv == ASSUME WideEnough PROVE Spec => []IInv
<1>1. Init => IInv
  BY InitIInv
<1>2. IInv /\ [Next]_vars => IInv'
  BY StepIInv
<1> QED BY <1>1, <1>2, PTL DEF Spec

(* On a window of two or more columns the cursor, the saved cursor and the
   margins of both screens always suit the screen. *)
THEOREM CursorSafety ==
    ASSUME WideEnough
    PROVE  Spec => [](TypeOK /\ CursorOnScreen /\ MarginsOnScreen)
<1>1. IInv => TypeOK /\ CursorOnScreen /\ MarginsOnScreen
  BY IInvImplies
<1> QED BY <1>1, SpecIInv, PTL

-----------------------------------------------------------------------------
(* What a step may never do. *)

(* The row move() goes to: inside the margins if the cursor was there or must
   be brought there. *)
LEMMA MoveRow ==
    ASSUME WideEnough, IInv, NEW x \in Int, NEW y \in Int, NEW clip \in {1, 2},
           Inside(cur, cur.y) \/ clip = 2
    PROVE  Inside(cur, move(cur, x, y, clip).y)
<1> DEFINE ry == RegionClip(cur, y, clip)
           py == Lesser(Greater(ry, 0), rows - 1)
<1>1. /\ cur \in CursorState /\ cur.y \in Nat /\ cur.top \in Nat /\ cur.bot \in Nat
      /\ cur.top <= cur.bot /\ cur.bot < rows
  BY DEF IInv, Fits, CursorState
<1>2. ry \in Int /\ cur.top <= ry /\ ry <= cur.bot
  BY <1>1 DEF RegionClip, Inside
<1>3. py = ry
  BY <1>1, <1>2, SizeFacts DEF Lesser, Greater
<1>4. move(cur, x, y, clip).y = py
  BY <1>1 DEF move, CursorState
<1> QED BY <1>2, <1>3, <1>4 DEF Inside

(* Relative moves, line feeds and origin mode respect the scroll region. *)
THEOREM RegionRespected == ASSUME WideEnough PROVE Spec => MovesKeepToRegion
<1>1. ASSUME IInv, MoveBy, Inside(cur, cur.y)
      PROVE  Inside(cur, cur'.y)
  <2>1. \A n \in Args : n \in Int
    BY MaxArgAssumption DEF Args
  <2>2. cur.x \in Int /\ cur.y \in Int
    BY <1>1 DEF IInv, Fits, CursorState
  <2>3. PICK n \in Args :
           \/ \E dy \in {-n, n} : \E x \in {0, cur.x} : cur' = move(cur, x, cur.y + dy, 1)
           \/ \E dx \in {-n, n} : cur' = move(cur, cur.x + dx, cur.y, 1)
    BY <1>1 DEF MoveBy
  <2>4. CASE \E dy \in {-n, n} : \E x \in {0, cur.x} : cur' = move(cur, x, cur.y + dy, 1)
    <3>1. PICK dy \in {-n, n}, x \in {0, cur.x} : cur' = move(cur, x, cur.y + dy, 1)
      BY <2>4
    <3>2. x \in Int /\ cur.y + dy \in Int
      BY <2>1, <2>2
    <3> QED BY <1>1, <3>1, <3>2, MoveRow
  <2>5. CASE \E dx \in {-n, n} : cur' = move(cur, cur.x + dx, cur.y, 1)
    <3>1. PICK dx \in {-n, n} : cur' = move(cur, cur.x + dx, cur.y, 1)
      BY <2>5
    <3>2. cur.x + dx \in Int
      BY <2>1, <2>2
    <3> QED BY <1>1, <2>2, <3>1, <3>2, MoveRow
  <2> QED BY <2>3, <2>4, <2>5
<1>2. ASSUME IInv, LineFeed, Inside(cur, cur.y)
      PROVE  Inside(cur, cur'.y)
  <2>1. PICK cr \in BOOLEAN :
           cur' = [LineDown(cur) EXCEPT !.x = IF cr THEN 0 ELSE @, !.wnext = FALSE]
    BY <1>2 DEF LineFeed
  <2>2. cur \in CursorState /\ cur.y \in Nat /\ cur.top \in Nat /\ cur.bot \in Nat
    BY <1>2 DEF IInv, Fits, CursorState
  <2> DEFINE y == IF cur.y # cur.bot /\ cur.y < rows - 1 THEN cur.y + 1 ELSE cur.y
  <2>3. LineDown(cur) = [cur EXCEPT !.y = y]
    BY DEF LineDown
  <2>4. Inside(cur, y)
    BY <1>2, <2>2 DEF Inside
  <2> HIDE DEF y
  <2>5. cur'.y = y
    BY <2>1, <2>2, <2>3 DEF CursorState
  <2> QED BY <2>4, <2>5
<1>3. ASSUME IInv, SetPosition, cur.om
      PROVE  Inside(cur, cur'.y)
  <2>1. PICK n \in Args, x \in {cur.x} \union {m - 1 : m \in Args} :
           cur' = move(cur, x, (IF cur.om THEN cur.top ELSE 0) + n - 1,
                       IF cur.om THEN 2 ELSE 0)
    BY <1>3 DEF SetPosition
  <2>2. x \in Int /\ cur.top + n - 1 \in Int
    BY <1>3, MaxArgAssumption DEF Args, IInv, Fits, CursorState
  <2>3. cur' = move(cur, x, cur.top + n - 1, 2)
    BY <1>3, <2>1
  <2> QED BY <1>3, <2>2, <2>3, MoveRow
<1> DEFINE Keeps == /\ (MoveBy \/ LineFeed) /\ Inside(cur, cur.y) => Inside(cur, cur'.y)
                    /\ SetPosition /\ cur.om => Inside(cur, cur'.y)
<1>4. IInv => Keeps
  BY <1>1, <1>2, <1>3
<1>5. IInv /\ [Next]_vars => [Keeps]_vars
  BY <1>4
<1> QED BY <1>5, SpecIInv, PTL DEF Spec, MovesKeepToRegion

(* The alternate screen leaves the primary's cursor state alone. *)
THEOREM PrimaryKept == ASSUME WideEnough PROVE Spec => PrimaryCursorKept
<1> DEFINE Stays == /\ alt_which = 1 /\ alt_which' = 1
                    /\ <<rows, cols>>' = <<rows, cols>>
<1>1. ASSUME IInv, Next, Stays
      PROVE  Kept(alt') = Kept(alt)
  <2>1. CASE ColumnMode
    <3>1. PICK c \in Widths \union {cols}, sized \in BOOLEAN :
             /\ sized <=> c # cols
             /\ cols' = c
             /\ alt' = IF sized THEN Sized(alt, alt_which = 1, rows, c, 0)
                       ELSE FullRegion(alt, rows)
      BY <2>1 DEF ColumnMode
    <3>2. alt' = FullRegion(alt, rows)
      BY <1>1, <3>1
    <3>3. alt \in CursorState
      BY <1>1 DEF IInv, Fits
    <3> QED BY <3>2, <3>3 DEF FullRegion, Kept, CursorState
  <2>2. CASE PowerOn \/ Resize
    BY <1>1, <2>2 DEF PowerOn, Resize, Sizes
  <2>3. CASE Mode47 \/ Mode1047 \/ Enter1049 \/ Leave1049
    <3>1. alt' = alt
      <4>1. CASE Mode47 \/ Mode1047
        <5>1. PICK which \in {0, 1} : ToScreen(which) /\ alt' = SwappedOut(which)
          BY <4>1 DEF Mode47, Mode1047
        <5>2. which = 1
          BY <1>1, <5>1 DEF ToScreen
        <5> QED BY <1>1, <5>1, <5>2 DEF SwappedOut
      <4>2. CASE Enter1049
        BY <1>1, <4>2 DEF Enter1049
      <4>3. CASE Leave1049
        BY <1>1, <4>3 DEF Leave1049, ToScreen
      <4> QED BY <2>3, <4>1, <4>2, <4>3
    <3> QED BY <3>1
  <2>4. CASE SetVT52
    BY <2>4 DEF SetVT52
  <2>5. CASE UNCHANGED Others
    BY <2>5 DEF Others
  <2> QED
    BY <1>1, <2>1, <2>2, <2>3, <2>4, <2>5
       DEF Next, Char, WideChar, Backspace, Delete, CarriageReturn, LineFeed,
           ReverseIndex, Tab, BackTab, MoveBy, MoveTo, SetPosition, SaveCursor,
           RestoreCursor, SetMargins, ScrollRegion, SetMode
<1> DEFINE Keeps == Stays => Kept(alt') = Kept(alt)
<1>2. IInv /\ [Next]_vars => [Keeps]_vars
  BY <1>1
<1> QED BY <1>2, SpecIInv, PTL DEF Spec, PrimaryCursorKept

=============================================================================
