---------------------------------- MODULE Bidi ----------------------------------
(*******************************************************************************)
(* Rows that hold right-to-left text: do_bidi() and do_shape() of minibidi.c,  *)
(* and term_bidi_line() of terminal.c with the cache it keeps for each row of  *)
(* the window.                                                                 *)
(*                                                                             *)
(* The rules of do_bidi() are operators named as its comments name them, each  *)
(* from the types or levels of the columns to new ones.  Columns count from 0  *)
(* in the code and from 1 here.  The characters are examples: one of each type *)
(* and, of the Arabic letters, one of each way of joining.                     *)
(*******************************************************************************)
EXTENDS Integers, Sequences, FiniteSets, SequencesExt

CONSTANTS
    Families,   \* rows to start from: a set of [chars, width, bidi, shape, edits]
    Widths      \* widths the window may take

VARIABLES
    row,        \* the characters of the row
    cfg,        \* whether the row is reordered and shaped (!cfg.bidi, !cfg.arabicshaping)
    cache,      \* pre_bidi_cache and post_bidi_cache of the row's place in the window
    shown,      \* what term_bidi_line() last gave, and the row it gave it for
    edits       \* bound: changes to come

vars == <<row, cfg, cache, shown, edits>>

-----------------------------------------------------------------------------
(* The characters. *)

(* getType(): the types of the examples. *)
getType(c) ==
    CASE c = "a" -> "L"
      [] c \in {"alef", "lam", "beh", "hamza", "tatweel"} -> "AL"
      [] c = "he" -> "R"
      [] c = "1" -> "EN"
      [] c = "$" -> "ET"
      [] c = "," -> "CS"
      [] c = "+" -> "ES"
      [] c = "acute" -> "NSM"
      [] c = "space" -> "WS"
      [] c = "tab" -> "S"
      [] c = "nul" -> "BN"
      [] c \in {"LRE", "LRO", "RLE", "RLO", "PDF", "AN"} -> c
      [] OTHER -> "ON"

(* shapetypes[] and STYPE. *)
STYPE(c) ==
    CASE c = "alef" -> "SR" [] c \in {"lam", "beh"} -> "SD" [] c = "tatweel" -> "SC" [] OTHER -> "SU"

Mirrors == [c \in {"(", ")"} |-> IF c = "(" THEN ")" ELSE "("]
doMirror(c) == IF c \in DOMAIN Mirrors THEN Mirrors[c] ELSE c

LikeR == {"R", "EN", "AN"}
Explicit == {"RLE", "LRE", "RLO", "LRO", "PDF"}

(* f(i, s) for each column i in turn. *)
Loop(f(_, _), s) == FoldLeft(LAMBDA acc, i : f(i, acc), s, [i \in 1 .. Len(s) |-> i])

(* The first column from i on that is not in kinds, n + 1 when there is none. *)
After(s, i, kinds) ==
    LET out == {j \in i .. Len(s) : s[j] \notin kinds}
    IN IF out = {} THEN Len(s) + 1 ELSE CHOOSE j \in out : \A k \in out : j <= k

-----------------------------------------------------------------------------
(* Embedding: rules P and X. *)

paragraphLevel(types) ==
    LET strong == {i \in 1 .. Len(types) : types[i] \in {"L", "R", "AL"}}
        first == CHOOSE i \in strong : \A j \in strong : i <= j
    IN IF strong # {} /\ types[first] # "L" THEN 1 ELSE 0

leastGreaterOdd(x) == IF x % 2 = 0 THEN x + 1 ELSE x + 2
leastGreaterEven(x) == IF x % 2 = 0 THEN x + 2 ELSE x + 1

(* The override is kept in the two high bits of the level. *)
setOverrideBits(level, override) ==
    level + (IF override = "R" THEN 64 ELSE IF override = "L" THEN 128 ELSE 0)

(* getPreviousLevel(): whether there is a level before the last run of equal ones. *)
HasPreviousLevel(levels) ==
    levels # <<>> /\ \E i \in 1 .. Len(levels) : levels[i] # levels[Len(levels)]

(* X1 to X8.  A PDF that has a match takes the override out of a level that *)
(* has none, and 0 is the value of L.                                       *)
EmbedOne(par, s, t) ==
    LET level == CASE t \in {"RLE", "RLO"} -> leastGreaterOdd(s.embedding)
                   [] t \in {"LRE", "LRO"} -> leastGreaterEven(s.embedding)
                   [] t = "PDF" /\ ~HasPreviousLevel(s.levels) -> par
                   [] OTHER -> s.embedding
        override == CASE t \in {"RLE", "LRE"} -> "ON"
                      [] t = "RLO" -> "R"
                      [] t = "LRO" -> "L"
                      [] t = "PDF" -> IF HasPreviousLevel(s.levels) THEN "L" ELSE "ON"
                      [] OTHER -> s.override
        type == CASE t \in {"RLO", "LRO"} -> override
                  [] t \in {"RLE", "LRE", "PDF"} -> t
                  [] s.override # "ON" -> s.override
                  [] t \in {"WS", "S"} -> "ON"
                  [] OTHER -> t
    IN [s EXCEPT !.embedding = level, !.override = override, !.types = Append(@, type),
                 !.levels = Append(@, IF t \in {"RLE", "LRE"} THEN setOverrideBits(level, s.override) ELSE level),
                 !.bover = @ \/ t \in {"RLO", "LRO"}]

Embedded(par, types) ==
    LET end == FoldLeft(LAMBDA s, t : EmbedOne(par, s, t),
                        [embedding |-> par, override |-> "ON", types |-> <<>>, levels |-> <<>>, bover |-> FALSE],
                        types)
    IN [types |-> [i \in 1 .. Len(types) |-> IF end.types[i] \in Explicit THEN "BN" ELSE end.types[i]],   \* X9
        levels |-> [i \in 1 .. Len(types) |-> IF end.bover THEN end.levels[i] % 64 ELSE end.levels[i]]]

-----------------------------------------------------------------------------
(* Weak types: rules W1 to W7. *)

(* The type of the start of the row is the number of the level: 0 is L, 1 is LRE. *)
W1(par, types) ==
    Loop(LAMBDA i, s : IF s[i] # "NSM" THEN s
                       ELSE [s EXCEPT ![i] = IF i > 1 THEN s[i - 1] ELSE IF par = 0 THEN "L" ELSE "LRE"], types)

(* Whether the last of kinds before column i is k; searched backwards, and not before the row. *)
LastIs(s, i, kinds, k) ==
    LET before == {j \in 1 .. i : s[j] \in kinds}
    IN before # {} /\ s[CHOOSE j \in before : \A l \in before : l <= j] = k

W2(types) == Loop(LAMBDA i, s : IF s[i] = "EN" /\ LastIs(s, i, {"AL", "R", "L"}, "AL")
                                THEN [s EXCEPT ![i] = "AN"] ELSE s, types)

W3(types) == [i \in 1 .. Len(types) |-> IF types[i] = "AL" THEN "R" ELSE types[i]]

W4(types) ==
    Loop(LAMBDA i, s :
           IF i \in 2 .. Len(s) - 1 /\ s[i - 1] = s[i + 1]
              /\ \/ s[i] = "ES" /\ s[i - 1] = "EN"
                 \/ s[i] = "CS" /\ s[i - 1] \in {"EN", "AN"}
           THEN [s EXCEPT ![i] = s[i - 1]] ELSE s, types)

(* When terminators end the row, the type after the row is read: beyond. *)
W5(types, beyond) ==
    Loop(LAMBDA i, s :
           LET n == Len(s)
               end == After(s, i, {"ET"})
           IN IF s[i] = "ET" /\ \/ i > 1 /\ s[i - 1] = "EN"
                                \/ end <= n /\ s[end] = "EN"
                                \/ i < n /\ end = n + 1 /\ beyond = "EN"
              THEN [s EXCEPT ![i] = "EN"] ELSE s, types)

W6(types) == [i \in 1 .. Len(types) |-> IF types[i] \in {"ES", "ET", "CS"} THEN "ON" ELSE types[i]]

W7(types) == Loop(LAMBDA i, s : IF s[i] = "EN" /\ LastIs(s, i, {"L", "R", "AL"}, "L")
                                THEN [s EXCEPT ![i] = "L"] ELSE s, types)

-----------------------------------------------------------------------------
(* Neutrals, rules N1 and N2: the first and the last column look at their one *)
(* neighbour, the others at what is before and behind the neutrals.           *)

Side(t) == IF t \in LikeR THEN "R" ELSE IF t = "L" THEN "L" ELSE "ON"

N1(types) ==
    LET n == Len(types)
        AtFirst(s) == IF n >= 2 /\ s[1] = "ON" THEN [s EXCEPT ![1] = Side(s[2])] ELSE s
        AtLast(s) == IF n >= 2 /\ s[n] = "ON" THEN [s EXCEPT ![n] = Side(s[n - 1])] ELSE s
        Middle(i, s) ==
            LET j == IF After(s, i, {"ON"}) > n THEN n ELSE After(s, i, {"ON"})
            IN IF i \in 2 .. n - 1 /\ s[i] = "ON" /\ Side(s[i - 1]) # "ON" /\ Side(s[j]) = Side(s[i - 1])
               THEN [k \in 1 .. n |-> IF k \in i .. j - 1 THEN Side(s[i - 1]) ELSE s[k]] ELSE s
    IN AtLast(Loop(Middle, AtFirst(types)))

N2(types, levels) ==
    [i \in 1 .. Len(types) |-> IF types[i] # "ON" THEN types[i] ELSE IF levels[i] % 2 = 0 THEN "L" ELSE "R"]

-----------------------------------------------------------------------------
(* Levels: rules I1, I2 and L1, and the order they stand for, L2. *)

SlipImplicit(types, levels) ==
    [i \in 1 .. Len(types) |->
        levels[i] + (CASE levels[i] % 2 = 0 /\ types[i] = "R" -> 1
                       [] levels[i] % 2 = 0 /\ types[i] \in {"AN", "EN"} -> 2 [] OTHER -> 0)]

(* I1, and then I2 for what I1 has left odd or made odd. *)
Implicit(types, levels) ==
    [i \in 1 .. Len(types) |->
        LET up == CASE levels[i] % 2 = 0 /\ types[i] = "R" -> 1
                    [] levels[i] % 2 = 0 /\ types[i] \in {"AN", "EN"} -> 2
                    [] OTHER -> 0
            level == levels[i] + up
        IN level + (IF level % 2 = 1 /\ types[i] \in {"L", "EN", "AN"} THEN 1 ELSE 0)]

L1(par, original, levels) ==
    LET n == Len(levels)
        Reset(i) == \/ original[i] \in {"B", "S"}
                    \/ original[i] = "WS" /\ LET j == After(original, i, {"WS"})
                                             IN j = n + 1 \/ original[j] \in {"B", "S"}
    IN [i \in 1 .. n |-> IF Reset(i) THEN par ELSE levels[i]]

(* Columns from .. to of line, reversed. *)
Reversed(line, from, to) ==
    [k \in 1 .. Len(line) |-> IF k \in from .. to THEN line[from + to - k] ELSE line[k]]

(* flipThisRun(): a run begins at a column of just that level and ends before a lower one. *)
RECURSIVE FlipFrom(_, _, _, _)
FlipFrom(line, levels, max, i) ==
    LET starts == {j \in i .. Len(line) : levels[j] = max}
        from == CHOOSE j \in starts : \A k \in starts : j <= k
        lower == {j \in from .. Len(line) : levels[j] < max}
        end == IF lower = {} THEN Len(line) + 1 ELSE CHOOSE j \in lower : \A k \in lower : j <= k
    IN IF starts = {} THEN line ELSE FlipFrom(Reversed(line, from, end - 1), levels, max, end)

flipThisRun(line, levels, max) == FlipFrom(line, levels, max, 1)

RECURSIVE Flipped(_, _, _)
Flipped(line, levels, max) ==
    IF max = 0 THEN line ELSE Flipped(flipThisRun(line, levels, max), levels, max - 1)

Highest(levels) == CHOOSE m \in ToSet(levels) : \A l \in ToSet(levels) : l <= m

(* The level of every column of a row that has right-to-left characters. *)
LevelsOf(chars, beyond) ==
    LET original == [i \in 1 .. Len(chars) |-> getType(chars[i])]
        par == paragraphLevel(original)
        x == Embedded(par, original)
        weak == W7(W6(W5(W4(W3(W2(W1(par, x.types)))), beyond)))
    IN L1(par, original, Implicit(N2(N1(weak), x.levels), x.levels))

(* do_bidi(): line is a sequence of [wc, index]. *)
do_bidi(line, beyond) ==
    LET chars == [i \in 1 .. Len(line) |-> line[i].wc]
        levels == LevelsOf(chars, beyond)
        mirrored == [i \in 1 .. Len(line) |->
                        IF levels[i] % 2 = 1 THEN [line[i] EXCEPT !.wc = doMirror(@)] ELSE line[i]]
    IN IF \A c \in ToSet(chars) : getType(c) \notin {"R", "AL"} THEN line
       ELSE Flipped(mirrored, levels, Highest(levels))

-----------------------------------------------------------------------------
(* do_shape(): a letter has the form its two neighbours call for; the letter     *)
(* before it in the text is to its right.  A lam with an alef to its left is one *)
(* glyph with it, and the alef a space.                                          *)

JoinsLeft(c) == STYPE(c) \in {"SL", "SD", "SC"}
JoinsRight(c) == STYPE(c) \in {"SR", "SD", "SC"}

Form(line, i) ==
    LET right == i < Len(line) /\ JoinsLeft(line[i + 1].wc)
        left == i > 1 /\ JoinsRight(line[i - 1].wc)
    IN CASE STYPE(line[i].wc) \notin {"SR", "SD"} -> "plain"
         [] line[i].wc = "lam" /\ i > 1 /\ line[i - 1].wc = "alef" -> IF right THEN "final_ligature" ELSE "ligature"
         [] STYPE(line[i].wc) = "SD" /\ right /\ left -> "medial"
         [] right -> "final"
         [] STYPE(line[i].wc) = "SD" /\ left -> "initial"
         [] OTHER -> "isolated"

do_shape(line) ==
    [i \in 1 .. Len(line) |->
        IF i < Len(line) /\ line[i + 1].wc = "lam" /\ line[i].wc = "alef"
        THEN [wc |-> "space", form |-> "plain", index |-> line[i].index]
        ELSE [wc |-> line[i].wc, form |-> Form(line, i), index |-> line[i].index]]

-----------------------------------------------------------------------------
(* term_bidi_line() and its cache. *)

NoEntry == [pre |-> <<>>, post |-> <<>>, forward |-> <<>>, backward |-> <<>>]

(* A row as the algorithms give it; unchanged when both are off (NULL). *)
Prepared(chars, c, beyond) ==
    LET wcFrom == [i \in 1 .. Len(chars) |-> [wc |-> chars[i], index |-> i]]
        ordered == IF c.bidi THEN do_bidi(wcFrom, beyond) ELSE wcFrom
    IN IF c.shape THEN do_shape(ordered)
       ELSE [i \in 1 .. Len(chars) |-> [wc |-> ordered[i].wc, form |-> "plain", index |-> ordered[i].index]]

term_bidi_cache_hit(entry, chars) == entry.pre # <<>> /\ entry.pre = chars

term_bidi_cache_store(chars, wcTo) ==
    [pre |-> chars, post |-> wcTo,
     backward |-> [i \in 1 .. Len(wcTo) |-> wcTo[i].index],
     forward |-> [p \in 1 .. Len(wcTo) |-> CHOOSE i \in 1 .. Len(wcTo) : wcTo[i].index = p]]

term_bidi_line ==
    /\ cfg.bidi \/ cfg.shape
    /\ \E beyond \in {"EN", "ON"} :
          cache' = IF term_bidi_cache_hit(cache, row) THEN cache
                   ELSE term_bidi_cache_store(row, Prepared(row, cfg, beyond))
    /\ shown' = [of |-> row, line |-> cache'.post]
    /\ UNCHANGED <<row, cfg, edits>>

(* The row of this place in the window changes, and the window its width. *)
Write ==
    /\ edits > 0 /\ edits' = edits - 1
    /\ \E i \in DOMAIN row, c \in UNION {f.chars : f \in Families} :
          row' = [row EXCEPT ![i] = c]
    /\ UNCHANGED <<cfg, cache, shown>>

Resize ==
    /\ edits > 0 /\ edits' = edits - 1
    /\ \E w \in Widths \ {Len(row)} :
          row' = [i \in 1 .. w |-> IF i <= Len(row) THEN row[i] ELSE "space"]
    /\ UNCHANGED <<cfg, cache, shown>>

Init ==
    \E f \in Families :
       /\ row \in [1 .. f.width -> f.chars]
       /\ cfg = [bidi |-> f.bidi, shape |-> f.shape]
       /\ cache = NoEntry
       /\ shown = [of |-> <<>>, line |-> <<>>]
       /\ edits = f.edits

Next == term_bidi_line \/ Write \/ Resize
Spec == Init /\ [][Next]_vars

-----------------------------------------------------------------------------
(* Properties. *)

Column(i) == cache.forward[i]
TypeIn(i) == getType(shown.of[i])
IsRightward(i) == TypeIn(i) = "L"
IsLeftward(i) == TypeIn(i) \in {"R", "AL"}
Painted == shown.of # <<>> /\ shown.of = cache.pre
Plainly == \A i \in DOMAIN shown.of : TypeIn(i) \notin Explicit

(* What a painted row shows is what the algorithms make of the row as it is *)
(* then, whatever the cache held before (terminal.c:4784, 4867).            *)
CacheIsFresh ==
    shown.of # <<>> => \E beyond \in {"EN", "ON"} : shown.line = Prepared(shown.of, cfg, beyond)

(* Of two characters of one direction with nothing but neutral ones between *)
(* them, the first is read first, and what is between them is shown between *)
(* them: text of one direction is neither torn nor turned (minibidi.c:674). *)
TextKeepsTogether ==
    Painted /\ cfg.bidi /\ Plainly =>
       \A i, j \in DOMAIN shown.of :
          /\ i < j
          /\ \A k \in i + 1 .. j - 1 : TypeIn(k) = "ON"
          => /\ IsRightward(i) /\ IsRightward(j) =>
                   \A k \in i .. j : Column(k) = Column(i) + k - i
             /\ IsLeftward(i) /\ IsLeftward(j) =>
                   \A k \in i .. j : Column(k) = Column(i) - (k - i)

(* A letter is shown joined to its neighbour on the right exactly when that     *)
(* neighbour is shown joined to it: no stroke ends in the air (minibidi.c:578). *)
LettersJoin ==
    cfg.shape =>
       \A i \in 1 .. Len(shown.line) - 1 :
          LET left == shown.line[i]
              right == shown.line[i + 1]
              Rightwards == left.form \in {"final", "medial", "final_ligature"}
              Leftwards == right.form \in {"initial", "medial"}
          IN /\ Rightwards => Leftwards \/ right.wc = "tatweel"
             /\ Leftwards => Rightwards \/ left.wc = "tatweel"

(* L2: any contiguous sequence of characters of a level or higher is reversed,   *)
(* so the digits of a number are read from left to right (minibidi.c:1086-1090). *)
NumbersInOrder ==
    Painted /\ cfg.bidi /\ Plainly =>
       \A i \in DOMAIN shown.of : i + 1 \in DOMAIN shown.of /\ TypeIn(i) = "EN" /\ TypeIn(i + 1) = "EN" =>
             Column(i + 1) = Column(i) + 1
=============================================================================
