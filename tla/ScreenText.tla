----------------------------- MODULE ScreenText -----------------------------
(***************************************************************************)
(* What a screen with a scroll history promises: rows of text, some of     *)
(* them on the screen and the older ones in a history of bounded length.   *)
(* How they are stored is TerminalBuffer's business.                       *)
(***************************************************************************)
EXTENDS Integers, Sequences

CONSTANTS Space, Capacity   \* most rows that history and screen can have

VARIABLES
  history,   \* rows that scrolled off the screen, oldest first
  screen,    \* the rows on the screen, topmost first
  alternate  \* the alternate screen, which has no history

tvars == <<history, screen, alternate>>

BlankLine(row) == \A x \in DOMAIN row : row[x] = Space

\* The newest rows, as many as there is room for beside n rows of screen.
Newest(rows, n) ==
  LET keep == IF alternate \/ Capacity < n THEN 0 ELSE Capacity - n
  IN IF Len(rows) <= keep THEN rows ELSE SubSeq(rows, Len(rows) - keep + 1, Len(rows))

\* The printed characters of a sequence of rows, in reading order.
Printed(rows) ==
  LET text[i \in 0..Len(rows)] ==
        IF i = 0 THEN << >>
        ELSE text[i - 1] \o SelectSeq(rows[i], LAMBDA c : c # Space)
  IN text[Len(rows)]

EndsWith(t, s) == Len(s) <= Len(t) /\ s = SubSeq(t, Len(t) - Len(s) + 1, Len(t))

\* Any change within the screen: the history cannot be edited.
Edit ==
  /\ Len(screen') = Len(screen) /\ Len(screen'[1]) = Len(screen[1])
  /\ UNCHANGED <<history, alternate>>

\* The lines between two margins move up: the first of them becomes the newest
\* row of the history, a blank one appears as the last, and the others, inside
\* and outside the margins, are the ones they were.
Scroll ==
  LET s == screen
      t == screen'
      h == history
      g == history'
  IN /\ Len(t) = Len(s)
     /\ \E top, bottom \in 1..Len(s) :
          /\ top <= bottom
          /\ g = Newest(Append(h, s[top]), Len(s))
          /\ BlankLine(t[bottom])
          /\ \A y \in 1..Len(s) \ {bottom} : t[y] = s[IF top <= y /\ y < bottom THEN y + 1 ELSE y]
     /\ UNCHANGED alternate

Forget ==
  /\ history' = << >>
  /\ UNCHANGED <<screen, alternate>>

\* Fewer or more rows of the same width.  Going down, rows leave at the bottom
\* of the screen or at its top into the history; going up, rows come back from
\* the history, and blank ones fill the rest.
ChangeHeight ==
  /\ ~alternate
  /\ Len(screen'[1]) = Len(screen[1])
  /\ LET all  == history \o screen
         new  == history' \o screen'
         kept == IF Len(all) < Len(new) THEN Len(all) ELSE Len(new)
     IN /\ Len(all) > kept => Len(all) - kept <= Len(screen) - Len(screen')
        /\ SubSeq(new, 1, kept) = SubSeq(all, 1, kept)
        /\ \A i \in kept + 1 .. Len(new) : BlankLine(new[i])
  /\ UNCHANGED alternate

\* Another width: the text is broken into rows again.  It keeps its order and
\* loses the oldest part if it needs more rows now, and what is right of the
\* cursor in the cursor's row.
Reflow ==
  /\ ~alternate
  /\ Len(screen'[1]) # Len(screen[1])
  /\ LET s   == screen
         h   == history
         new == Printed(history' \o screen')
     IN \E y \in 1..Len(s) : \E x \in DOMAIN s[y] :
          LET old == Printed(h \o [s EXCEPT ![y] = [i \in DOMAIN @ |-> IF i > x THEN Space ELSE @[i]]])
          IN \/ new = old
             \/ EndsWith(old, new) /\ Len(history') + Len(screen') = Capacity
  /\ UNCHANGED alternate

\* No promise for the alternate screen: programs that use it draw it again.
Redraw ==
  /\ alternate
  /\ history' = << >>
  /\ Len(screen') # Len(screen) \/ Len(screen'[1]) # Len(screen[1])
  /\ UNCHANGED alternate

TextInit ==
  /\ history = << >>
  /\ \A y \in 1..Len(screen) : BlankLine(screen[y])

TextNext == Edit \/ Scroll \/ Forget \/ ChangeHeight \/ Reflow \/ Redraw

TextSpec == TextInit /\ [][TextNext]_tvars
=============================================================================
