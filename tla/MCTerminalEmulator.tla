------------------------- MODULE MCTerminalEmulator -------------------------
(* Small screens for TLC: one may be higher, one wider than the smallest.  *)
EXTENDS TerminalEmulator, TLC

MCSizes == {<<2, 2>>, <<3, 2>>, <<2, 3>>}
MCRectangles == {[i \in 1..6 |-> IF i <= 2 THEN a ELSE IF i <= 4 THEN b ELSE c] :
                   a \in {1, 2}, b \in {1, 2, 7}, c \in {1, 2}}
MCPrograms == {{"savedCursor"}, {"sideMargins", "deleteColumns"},
               {"rectangleAttributes", "largeParameters"}}
MCMarginPrograms == {{"sideMargins"}}
=============================================================================
