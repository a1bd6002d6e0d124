------------------------- MODULE MCTerminalBuffer -------------------------
(***************************************************************************)
(* Instances of TerminalBuffer: screens of 2 or 3 columns and rows in a    *)
(* ring of 4 rows, which scrolling goes around.                            *)
(***************************************************************************)
EXTENDS TerminalBuffer, TLC

MCLetters == Permutations(Letter)
MCSizes == {<<2, 2>>, <<2, 3>>, <<3, 2>>}
=============================================================================
