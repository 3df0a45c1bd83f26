----------------------------- MODULE TerminalLines -----------------------------
(******************************************************************************)
(* Small instances for TLC of the components that keep and show one row of    *)
(* the terminal, checked in one run: the row in memory (TermLine) and in the  *)
(* scrollback (LineCodec), the reordering of its text (Bidi) and its painting *)
(* (Display).  A behaviour is one component's, the one that part names, and   *)
(* the variables of the others keep the value they have.                      *)
(******************************************************************************)
EXTENDS TermLine

CONSTANT MaxRow     \* bound: the cells of the row in the scrollback

VARIABLES
    part,
    stored,                                         \* for LineCodec: a row
    painted, disp, window, pending, exposed, changes,   \* of Display
    row, cfg, cache, shown, edits                   \* of Bidi

codecVars == <<stored>>
displayVars == <<painted, disp, window, pending, exposed, changes>>
bidiVars == <<row, cfg, cache, shown, edits>>
lineVars == <<line>>
allVars == <<part, lineVars, codecVars, displayVars, bidiVars>>

-----------------------------------------------------------------------------
(* Of TermLine: a space of the page of ASCII and a character of page 1, of one
   attribute, as the two go together wherever they go; a combining character. *)
SomePages == 0 .. 1
Space == <<0, 0>>
SomeChars == {<<0, 0>>, <<1, 2>>}
SomeAttrs == {0}
SomeMarks == {<<1, 1>>}

(* Of LineCodec: characters of both pages, of which one has a short form, an
   attribute of each length, a combining character. *)
StoredCells ==
    LET cell(c, a, ms) == [chr |-> c, attr |-> a, marks |-> ms]
    IN {cell(c, 0, <<>>) : c \in {<<0, 0>>, <<1, 0>>, <<1, 2>>}}
         \union {cell(Space, 2, <<>>), cell(Space, 0, <<<<1, 1>>>>)}

(* A space and a letter, a character of two columns and a combining one. *)
D == INSTANCE Display WITH
        Cols <- 3, Narrow <- {"space", "a"}, Wide <- {"W"}, LeadByte <- {}, Marks <- {"m"},
        Reversed <- {{}, {0}}, Doubles <- {FALSE, TRUE}, Exposures <- {1 .. 2},
        Cursors <- {"none", "active"}, MaxEdits <- 1,
        line <- painted, edits <- changes

(* Rows of every character of a few alphabets, some of which change. *)
RowsOf(chars, width, bidi, shape, n) ==
    [chars |-> chars, width |-> width, bidi |-> bidi, shape |-> shape, edits |-> n]
SomeFamilies == {
    RowsOf({"a", "he", "beh", "1", "+", "$", "(", "space"}, 4, TRUE, FALSE, 0),
    RowsOf({"a", "he", "1", ",", "tab"}, 4, TRUE, FALSE, 0),
    RowsOf({"a", "he", "acute", "RLE", "LRO", "RLO", "LRE", "PDF"}, 4, TRUE, FALSE, 0),
    RowsOf({"alef", "lam", "beh", "hamza", "tatweel", "space"}, 4, TRUE, TRUE, 0),
    RowsOf({"beh", "lam", "alef"}, 3, FALSE, TRUE, 0),
    RowsOf({"a", "he", "1"}, 2, TRUE, TRUE, 2)}
B == INSTANCE Bidi WITH Families <- SomeFamilies, Widths <- {2, 3}

ASSUME InstancesAssumption == D!DisplayAssumption

-----------------------------------------------------------------------------
Absent == "absent"
NoDisplay ==
    /\ painted = Absent /\ disp = Absent /\ window = Absent
    /\ pending = Absent /\ exposed = Absent /\ changes = Absent
NoBidi == row = Absent /\ cfg = Absent /\ cache = Absent /\ shown = Absent /\ edits = Absent
NoLine == line = NewLine(1)

LinesInit ==
    /\ stored = <<>>
    /\ \/ part = "line" /\ Init /\ NoDisplay /\ NoBidi
       \/ part = "codec" /\ NoLine /\ NoDisplay /\ NoBidi
       \/ part = "display" /\ D!Init /\ NoLine /\ NoBidi
       \/ part = "bidi" /\ B!Init /\ NoLine /\ NoDisplay

LineStep == part = "line" /\ Next /\ UNCHANGED <<part, codecVars, displayVars, bidiVars>>
CodecStep ==
    /\ part = "codec"
    /\ \/ Len(stored) < MaxRow /\ \E c \in StoredCells : stored' = Append(stored, c)
       \/ stored # <<>> /\ stored' = <<>>
    /\ UNCHANGED <<part, lineVars, displayVars, bidiVars>>
DisplayStep == part = "display" /\ D!Next /\ UNCHANGED <<part, lineVars, codecVars, bidiVars>>
BidiStep == part = "bidi" /\ B!Next /\ UNCHANGED <<part, lineVars, codecVars, displayVars>>

LinesSpec == LinesInit /\ [][LineStep \/ CodecStep \/ DisplayStep \/ BidiStep]_allVars

-----------------------------------------------------------------------------
(* The lists of combining characters of a row are as cc_check() says
   (terminal.c:307-370), and a row comes back from the scrollback as it went
   there, for rows with runs and literals of every length up to MaxRow
   (compressline(), decompressline()). *)
RowsSound ==
    /\ part = "line" => CombiningListsSound
    /\ part = "codec" => decompressline(compressline(stored)) = stored

(* When no update is due, the window shows what the row has (do_paint()). *)
WindowShowsScreen == part = "display" => D!TypeOK /\ D!WindowShowsScreen

(* The cache of reordered rows is never stale (term_bidi_line()); reordering keeps
   text of one direction together, and letters that join stay joined. *)
RowsReadable == part = "bidi" => B!CacheIsFresh /\ B!TextKeepsTogether /\ B!LettersJoin

(* Of do_bidi() its comment says that it will "reverse any contiguous sequence
   of characters that are at that level or higher" (minibidi.c:1082-1085): the
   digits of a number keep their order. *)
NumbersInOrder == part = "bidi" => B!NumbersInOrder
=============================================================================
