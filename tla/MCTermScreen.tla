---------------------------- MODULE MCTermScreen ----------------------------
(* Small instances of TermScreen for TLC. *)
EXTENDS TermScreen

(* Scrolling back by a line, which further output turns into any number. *)
AnyView == {-1, 0}

Setting(savelines, no_alt_screen, heights) ==
    [savelines |-> savelines, erase_to_scrollback |-> TRUE, no_alt_screen |-> no_alt_screen,
     text |-> {"t"}, alttext |-> IF no_alt_screen THEN {} ELSE {"a"}, heights |-> heights,
     wrapping |-> FALSE, maxcount |-> 1, regions |-> {}, viewrows |-> {}, mouserows |-> {}]

(* The regions of a window of up to three rows, and the view of what is above;
   both screens; the mouse, and lines that wrap. *)
Storage == [Setting(2, TRUE, {2, 3}) EXCEPT
              !.maxcount = 2, !.regions = {<<0, 1>>, <<1, 2>>}, !.viewrows = {-1}]
Viewing == [Setting(1, FALSE, {1, 2}) EXCEPT !.viewrows = AnyView]
Selection == [Setting(1, TRUE, {2}) EXCEPT
                !.wrapping = TRUE, !.viewrows = {-1}, !.mouserows = {0}]

SomeConfigs == {Storage, Viewing, Selection}
OneConfig == {Selection}
=============================================================================
