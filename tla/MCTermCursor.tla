---------------------------- MODULE MCTermCursor ----------------------------
(* Small instances of TermCursor for TLC. *)
EXTENDS TermCursor

(* Two screens are explored in windows of one and two rows.  The regions of a
   window of three rows, VT52 mode and DECAWM off, which only decide where a
   character wraps, are explored on the primary screen while the other is
   untouched: other states are checked, and left at that. *)
OneScreen == alt_which = 0 /\ alt = PowerOnState(0, rows)
Explored == (rows = 3 \/ vt52_mode \/ ~cur.wrap) => OneScreen

=============================================================================
