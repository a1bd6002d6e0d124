-------------------------- MODULE TerminalEmulator --------------------------
(***************************************************************************)
(* Where TerminalEmulator.java writes: the cursor, the scrolling margins,  *)
(* the modes that move them, the main and the alternate screen, the saved  *)
(* cursors, and for every control sequence whether the calls it makes on   *)
(* TerminalBuffer stay on the screen.  The text is TerminalBuffer's.       *)
(*                                                                         *)
(* Auto-wrap (DECSET 7), insert mode (CSI 4 h) and the tab stops can be    *)
(* changed at any time and change nothing else, so each use of them is a   *)
(* choice.  Colours, styles, titles, character sets and replies are data.  *)
(***************************************************************************)
EXTENDS Integers

CONSTANTS Sizes,     \* <<columns, rows>> the view may ask for
          Params,    \* the numbers control sequences have as parameters
          Large,     \* the parameters that may overflow when added to a position
          Rectangles,\* the parameter lists of the rectangle functions
          Programs,  \* subsets of Features
          IntMax,    \* the largest int: 2^31 - 1 in Java
          MaxOverrun \* bound: the cursor is not followed further left of the screen

\* What a program in the guest may do or not.  All but the first are hazards.
Hazards == {"sideMargins", "deleteColumns", "rectangleAttributes", "largeParameters"}
Features == {"savedCursor"} \cup Hazards

ASSUME EmulatorAssumption ==
  /\ IntMax \in Nat
  /\ Sizes \subseteq Nat \X Nat
  /\ \A s \in Sizes : s[1] >= 2 /\ s[2] >= 2 /\ 2 * s[1] <= IntMax /\ 2 * s[2] <= IntMax
  /\ Params \subseteq 1..IntMax /\ Large \subseteq Params
  /\ \A n \in Params \ Large, s \in Sizes : n + s[1] <= IntMax /\ n + s[2] <= IntMax
  /\ Rectangles \subseteq [1..6 -> Params]
  /\ Programs \subseteq SUBSET Features
  /\ MaxOverrun \in Nat

VARIABLES mRows, mColumns, mCursorRow, mCursorCol, mAboutToAutoWrap,
          mTopMargin, mBottomMargin, mLeftMargin, mRightMargin,
          flags,     \* of mCurrentDecSetFlags: "origin" and "leftRight"
          mScreen,   \* "main" or "alt"
          size,      \* of each buffer: <<mColumns, mScreenRows>>
          saved,     \* mSavedStateMain and mSavedStateAlt
          threw,     \* a call was refused; the exception ends the process
          uses       \* what the program in the guest does, of Features

cursor == <<mCursorRow, mCursorCol, mAboutToAutoWrap>>
margins == <<mTopMargin, mBottomMargin, mLeftMargin, mRightMargin>>
screens == <<mRows, mColumns, mScreen, size, saved>>
vars == <<cursor, margins, flags, screens, threw, uses>>

-----------------------------------------------------------------------------
(* int arithmetic                                                          *)

Least(a, b) == IF a < b THEN a ELSE b
Greatest(a, b) == IF a > b THEN a ELSE b
Wrapped(n) == IF n > IntMax THEN n - 2 * (IntMax + 1)
              ELSE IF n < -IntMax - 1 THEN n + 2 * (IntMax + 1) ELSE n

-----------------------------------------------------------------------------
(* The calls TerminalBuffer accepts                                        *)

Columns == 0..mColumns - 1

SetCharLegal(x, y) == 0 <= x /\ x < size[mScreen][1] /\ 0 <= y /\ y < size[mScreen][2]

BlockSetLegal(sx, sy, w, h) ==
  /\ 0 <= sx /\ sx + w <= size[mScreen][1]
  /\ 0 <= sy /\ sy + h <= size[mScreen][2]

BlockCopyLegal(sx, sy, w, h, dx, dy) ==
  \/ w = 0
  \/ BlockSetLegal(sx, sy, w, h) /\ BlockSetLegal(dx, dy, w, h)

LineWrapLegal(y) == 0 <= y /\ y <= size[mScreen][2]

ScrollDownOneLineLegal ==
  IF mLeftMargin # 0 \/ mRightMargin # mColumns
    THEN /\ BlockCopyLegal(mLeftMargin, mTopMargin + 1, mRightMargin - mLeftMargin,
                           mBottomMargin - mTopMargin - 1, mLeftMargin, mTopMargin)
         /\ BlockSetLegal(mLeftMargin, mBottomMargin - 1, mRightMargin - mLeftMargin, 1)
    ELSE /\ mTopMargin <= mBottomMargin - 1
         /\ mTopMargin >= 0 /\ mBottomMargin <= size[mScreen][2]

-----------------------------------------------------------------------------
(* Moving the cursor                                                       *)

Origin == "origin" \in flags
EffectiveTop == IF Origin THEN mTopMargin ELSE 0
EffectiveBottom == IF Origin THEN mBottomMargin ELSE mRows
EffectiveLeft == IF Origin THEN mLeftMargin ELSE 0
EffectiveRight == IF Origin THEN mRightMargin ELSE mColumns

CursorTo(row, col, pending) ==
  mCursorRow' = row /\ mCursorCol' = col /\ mAboutToAutoWrap' = pending

SetCursorRow(row) == CursorTo(row, mCursorCol, FALSE)
SetCursorCol(col) == CursorTo(mCursorRow, col, FALSE)

SetCursorRowCol(row, col) ==
  CursorTo(Greatest(0, Least(row, mRows - 1)), Greatest(0, Least(col, mColumns - 1)), FALSE)

SetCursorPosition(x, y) ==
  SetCursorRowCol(
    Greatest(EffectiveTop, Least(Wrapped(EffectiveTop + y), EffectiveBottom - 1)),
    Greatest(EffectiveLeft, Least(Wrapped(EffectiveLeft + x), EffectiveRight - 1)))

\* setCursorPosition(0, 0) with the mode and the margins just set.
SetCursorHome(origin, top, left) ==
  SetCursorRowCol(IF origin THEN top ELSE 0, IF origin THEN left ELSE 0)

\* A tab stops past the right margin.
NextTabStopsPastMargin ==
  {Least(i, mRightMargin) : i \in mCursorCol + 1 .. mColumns - 1} \cup {mRightMargin}

NextTabStops == {Least(i, mRightMargin) : i \in mCursorCol + 1 .. mColumns - 1} \cup {mRightMargin - 1}
PreviousTabStops == {Greatest(i, mLeftMargin) : i \in 0 .. mCursorCol - 1} \cup {mLeftMargin}

-----------------------------------------------------------------------------
(* Characters and C0 controls                                              *)

Args == IF "largeParameters" \in uses THEN Params ELSE Params \ Large

\* A handler runs to its end unless one of its calls is refused.
Handler(legal) == ~threw /\ threw' = ~legal /\ UNCHANGED uses
MovesOnly == UNCHANGED <<margins, flags, screens>>

\* Also the repetitions of REP (CSI n b) and the mark that CAN and SUB leave.
EmitCodePoint(width, autoWrap, insert) ==
  LET last == mCursorCol = mRightMargin - 1
      wraps == autoWrap /\ last /\ ((mAboutToAutoWrap /\ width = 1) \/ width = 2)
      scrolls == wraps /\ mCursorRow + 1 >= mBottomMargin
      row == IF wraps /\ ~scrolls THEN mCursorRow + 1 ELSE mCursorRow
      col == IF wraps THEN mLeftMargin ELSE mCursorCol
      offset == IF width = 0 /\ col > 0 /\ ~mAboutToAutoWrap THEN 1 ELSE 0
  IN /\ ~(~autoWrap /\ last /\ width = 2)
     /\ Handler(/\ wraps => LineWrapLegal(mCursorRow)
                /\ scrolls => ScrollDownOneLineLegal
                /\ insert /\ width > 0 /\ col + width < mRightMargin =>
                     BlockCopyLegal(col, row, mRightMargin - (col + width), 1, col + width, row)
                /\ SetCharLegal(col - offset, row)
                /\ width = 2 => col # mColumns - 1)
     /\ CursorTo(row, Least(col + width, mRightMargin - 1),
                 IF autoWrap /\ width > 0 THEN col = mRightMargin - width ELSE mAboutToAutoWrap)
     /\ MovesOnly

\* wrapped: whether the row above has the wrap mark.
Backspace(wrapped) ==
  /\ mCursorCol > -MaxOverrun
  /\ Handler(mLeftMargin = mCursorCol /\ mCursorRow > 0 => LineWrapLegal(mCursorRow - 1))
  /\ IF mLeftMargin # mCursorCol THEN SetCursorCol(mCursorCol - 1)
     ELSE IF mCursorRow > 0 /\ wrapped THEN SetCursorRowCol(mCursorRow - 1, mRightMargin - 1)
     ELSE UNCHANGED cursor
  /\ MovesOnly

\* HT, which keeps mAboutToAutoWrap, and CHT (CSI n I), which clears it.
Tab(pending) ==
  /\ pending \in {mAboutToAutoWrap, FALSE}
  /\ Handler(mCursorCol + 1 >= 0)
  /\ \E col \in NextTabStops : CursorTo(mCursorRow, col, pending)
  /\ MovesOnly

\* CBT (CSI n Z).
BackTab ==
  /\ Handler(mCursorCol <= mColumns)
  /\ \E col \in PreviousTabStops : CursorTo(mCursorRow, col, mAboutToAutoWrap)
  /\ MovesOnly

\* HTS (ESC H) and TBC (CSI g) write mTabStop[mCursorCol].
SetTabStop ==
  /\ Handler(mCursorCol \in Columns)
  /\ UNCHANGED cursor /\ MovesOnly

DoLinefeed(col, pending) ==
  LET scrolls == mCursorRow + 1 = mBottomMargin
  IN /\ Handler(scrolls => ScrollDownOneLineLegal)
     /\ IF mCursorRow >= mBottomMargin /\ mCursorRow = mRows - 1
          THEN CursorTo(mCursorRow, col, pending)
          ELSE CursorTo(IF scrolls THEN mBottomMargin - 1 ELSE Wrapped(mCursorRow + 1), col, FALSE)
     /\ MovesOnly

Linefeed == DoLinefeed(mCursorCol, mAboutToAutoWrap)

\* NEL (ESC E).
NextLine == DoLinefeed(IF Origin THEN mLeftMargin ELSE 0, FALSE)

CarriageReturn == Handler(TRUE) /\ SetCursorCol(mLeftMargin) /\ MovesOnly

-----------------------------------------------------------------------------
(* Escape sequences                                                        *)

\* DECBI (ESC 6).
BackIndex ==
  LET rows == mBottomMargin - mTopMargin
      moves == mCursorCol > mLeftMargin
  IN /\ Handler(moves \/ /\ BlockCopyLegal(mLeftMargin, mTopMargin, mRightMargin - mLeftMargin - 1,
                                           rows, mLeftMargin + 1, mTopMargin)
                         /\ BlockSetLegal(mLeftMargin, mTopMargin, 1, rows))
     /\ CursorTo(mCursorRow, IF moves THEN mCursorCol - 1 ELSE mCursorCol, mAboutToAutoWrap)
     /\ MovesOnly

\* DECFI (ESC 9).
ForwardIndex ==
  LET rows == mBottomMargin - mTopMargin
      moves == mCursorCol < mRightMargin - 1
  IN /\ Handler(moves \/ /\ BlockCopyLegal(mLeftMargin + 1, mTopMargin, mRightMargin - mLeftMargin - 1,
                                           rows, mLeftMargin, mTopMargin)
                         /\ BlockSetLegal(mRightMargin - 1, mTopMargin, 1, rows))
     /\ CursorTo(mCursorRow, IF moves THEN mCursorCol + 1 ELSE mCursorCol, mAboutToAutoWrap)
     /\ MovesOnly

\* RI (ESC M).
ReverseIndex ==
  LET moves == mCursorRow > mTopMargin
  IN /\ Handler(moves \/ /\ BlockCopyLegal(0, mTopMargin, mColumns, mBottomMargin - (mTopMargin + 1),
                                           0, mTopMargin + 1)
                         /\ BlockSetLegal(0, mTopMargin, mColumns, 1))
     /\ CursorTo(IF moves THEN mCursorRow - 1 ELSE mCursorRow, mCursorCol, mAboutToAutoWrap)
     /\ MovesOnly

\* ESC F.
LowerLeft == Handler(TRUE) /\ SetCursorRowCol(0, mBottomMargin - 1) /\ MovesOnly

\* DECALN (ESC # 8).
AlignmentTest == Handler(BlockSetLegal(0, 0, mColumns, mRows)) /\ UNCHANGED cursor /\ MovesOnly

Here == [row |-> mCursorRow, col |-> mCursorCol, origin |-> Origin]
Home == [row |-> 0, col |-> 0, origin |-> FALSE]

\* One saved cursor for both screens.
SaveCursorShared ==
  /\ "savedCursor" \in uses
  /\ Handler(TRUE)
  /\ saved' = [saved EXCEPT !["main"] = Here]
  /\ UNCHANGED <<cursor, margins, flags, mRows, mColumns, mScreen, size>>

\* DECSC (ESC 7, CSI s, DECSET 1048).
SaveCursor ==
  /\ "savedCursor" \in uses
  /\ Handler(TRUE)
  /\ saved' = [saved EXCEPT ![mScreen] = Here]
  /\ UNCHANGED <<cursor, margins, flags, mRows, mColumns, mScreen, size>>

WithOrigin(on) == IF on THEN flags \cup {"origin"} ELSE flags \ {"origin"}

\* DECRC (ESC 8, CSI u, DECRST 1048).
RestoreCursor ==
  /\ Handler(TRUE)
  /\ SetCursorRowCol(saved[mScreen].row, saved[mScreen].col)
  /\ flags' = WithOrigin(saved[mScreen].origin)
  /\ UNCHANGED <<margins, screens>>

DefaultMargins ==
  /\ mTopMargin' = 0 /\ mBottomMargin' = mRows
  /\ mLeftMargin' = 0 /\ mRightMargin' = mColumns

\* RIS (ESC c, and the menu of the app) erases, DECSTR (CSI ! p) does not.
Reset(erase) ==
  /\ Handler(erase => BlockSetLegal(0, 0, mColumns, mRows))
  /\ IF erase THEN SetCursorPosition(0, 0) ELSE CursorTo(mCursorRow, mCursorCol, FALSE)
  /\ DefaultMargins
  /\ flags' = {}
  /\ saved' = [s \in {"main", "alt"} |-> Home]
  /\ UNCHANGED <<mRows, mColumns, mScreen, size>>

-----------------------------------------------------------------------------
(* Control sequences that move the cursor                                  *)

Moves == Handler(TRUE) /\ MovesOnly

CursorUp(n) == Moves /\ SetCursorRow(Greatest(0, Wrapped(mCursorRow - n)))
CursorDown(n) == Moves /\ SetCursorRow(Least(mRows - 1, Wrapped(mCursorRow + n)))
CursorForward(n) == Moves /\ SetCursorCol(Least(mRightMargin - 1, Wrapped(mCursorCol + n)))
CursorBackward(n) == Moves /\ SetCursorCol(Greatest(mLeftMargin, Wrapped(mCursorCol - n)))
CursorNextLine(n) == Moves /\ SetCursorPosition(0, Wrapped(mCursorRow + n))
CursorPreviousLine(n) == Moves /\ SetCursorPosition(0, Wrapped(mCursorRow - n))
ColumnAbsolute(n) == Moves /\ SetCursorCol(Least(Greatest(1, n), mColumns) - 1)
RowAbsolute(n) == Moves /\ SetCursorRow(Least(Greatest(1, n), mRows) - 1)
CursorPosition(n, m) == Moves /\ SetCursorPosition(m - 1, n - 1)
ColumnPosition(n) == Moves /\ SetCursorPosition(n - 1, mCursorRow)
RowRelative(n) == Moves /\ SetCursorPosition(mCursorCol, Wrapped(mCursorRow + n))

\* DECSTBM (CSI top ; bottom r).
SetTopBottomMargins(n, m) ==
  LET top == Greatest(0, Least(n - 1, mRows - 2))
  IN /\ Handler(TRUE)
     /\ mTopMargin' = top
     /\ mBottomMargin' = Greatest(top + 2, Least(m, mRows))
     /\ SetCursorHome(Origin, top, mLeftMargin)
     /\ UNCHANGED <<mLeftMargin, mRightMargin, flags, screens>>

\* The left margin counted one too far to the left.
SetLeftRightMarginsOffByOne(n, m) ==
  LET left == Least(n - 2, mColumns - 2)
  IN /\ "leftRight" \in flags
     /\ Handler(TRUE)
     /\ mLeftMargin' = left
     /\ mRightMargin' = Greatest(left + 1, Least(m, mColumns))
     /\ SetCursorHome(Origin, mTopMargin, left)
     /\ UNCHANGED <<mTopMargin, mBottomMargin, flags, screens>>

\* DECSLRM (CSI left ; right s with DECSET 69; without it CSI s is SaveCursor).
SetLeftRightMargins(n, m) ==
  LET left == Least(n - 1, mColumns - 2)
  IN /\ "leftRight" \in flags
     /\ Handler(TRUE)
     /\ mLeftMargin' = left
     /\ mRightMargin' = Greatest(left + 1, Least(m, mColumns))
     /\ SetCursorHome(Origin, mTopMargin, left)
     /\ UNCHANGED <<mTopMargin, mBottomMargin, flags, screens>>

-----------------------------------------------------------------------------
(* Control sequences that edit the screen                                  *)

Edits(legal) == Handler(legal) /\ UNCHANGED cursor /\ MovesOnly
EditsAndStays(legal) == Handler(legal) /\ CursorTo(mCursorRow, mCursorCol, FALSE) /\ MovesOnly

\* ICH (CSI n @) and DCH (CSI n P).
InsertCharacters(n) ==
  LET after == mColumns - mCursorCol
      inserted == Least(n, after)
  IN EditsAndStays(/\ BlockCopyLegal(mCursorCol, mCursorRow, after - inserted, 1,
                                     mCursorCol + inserted, mCursorRow)
                   /\ BlockSetLegal(mCursorCol, mCursorRow, inserted, 1))

DeleteCharacters(n) ==
  LET after == mColumns - mCursorCol
      deleted == Least(n, after)
  IN EditsAndStays(/\ BlockCopyLegal(mCursorCol + deleted, mCursorRow, after - deleted, 1,
                                     mCursorCol, mCursorRow)
                   /\ BlockSetLegal(mCursorCol + (after - deleted), mCursorRow, deleted, 1))

\* ECH (CSI n X).
EraseCharacters(n) ==
  EditsAndStays(BlockSetLegal(mCursorCol, mCursorRow, Least(n, mColumns - mCursorCol), 1))

\* ED (CSI n J); 3 erases the history only.
EraseInDisplay(n) ==
  EditsAndStays(
    /\ n = 0 => /\ BlockSetLegal(mCursorCol, mCursorRow, mColumns - mCursorCol, 1)
                /\ BlockSetLegal(0, mCursorRow + 1, mColumns, mRows - (mCursorRow + 1))
    /\ n = 1 => /\ BlockSetLegal(0, 0, mColumns, mCursorRow)
                /\ BlockSetLegal(0, mCursorRow, mCursorCol + 1, 1)
    /\ n = 2 => BlockSetLegal(0, 0, mColumns, mRows))

\* EL (CSI n K).
EraseInLine(n) ==
  EditsAndStays(
    /\ n = 0 => BlockSetLegal(mCursorCol, mCursorRow, mColumns - mCursorCol, 1)
    /\ n = 1 => BlockSetLegal(0, mCursorRow, mCursorCol + 1, 1)
    /\ n = 2 => BlockSetLegal(0, mCursorRow, mColumns, 1))

\* setChar() on the cells of columns left..right-1 and rows top..bottom-1.
SetCharsLegal(left, top, right, bottom) ==
  left < right /\ top < bottom => SetCharLegal(left, top) /\ SetCharLegal(right - 1, bottom - 1)

\* DECSED (CSI ? n J) and, with justRow, DECSEL (CSI ? n K).
SelectiveErase(n, justRow) ==
  EditsAndStays(
    SetCharsLegal(IF n = 0 THEN mCursorCol ELSE 0,
                  IF justRow \/ n = 0 THEN mCursorRow ELSE 0,
                  IF n = 1 THEN mCursorCol + 1 ELSE mColumns,
                  IF justRow \/ n = 1 THEN mCursorRow + 1 ELSE mRows))

\* More lines inserted than there are down to the bottom margin.
InsertLinesUnbounded(n) ==
  Edits(/\ BlockCopyLegal(0, mCursorRow, mColumns, mBottomMargin - mCursorRow - n, 0, mCursorRow + n)
        /\ BlockSetLegal(0, mCursorRow, mColumns, n))

\* IL (CSI n L), DL (CSI n M).
InsertLines(n) ==
  LET after == mBottomMargin - mCursorRow
      inserted == Least(n, after)
  IN Edits(/\ BlockCopyLegal(0, mCursorRow, mColumns, after - inserted, 0, mCursorRow + inserted)
           /\ BlockSetLegal(0, mCursorRow, mColumns, inserted))

DeleteLines(n) ==
  LET after == mBottomMargin - mCursorRow
      deleted == Least(n, after)
  IN EditsAndStays(/\ BlockCopyLegal(0, mCursorRow + deleted, mColumns, after - deleted, 0, mCursorRow)
                   /\ BlockSetLegal(0, mCursorRow + (after - deleted), mColumns, deleted))

\* SU (CSI n S) scrolls n times one line, SD (CSI n T) moves the region down.
ScrollUp == Edits(ScrollDownOneLineLegal)

ScrollDown(n) ==
  LET between == mBottomMargin - mTopMargin
      lines == Least(between, n)
  IN Edits(/\ BlockCopyLegal(0, mTopMargin, mColumns, between - lines, 0, mTopMargin + lines)
           /\ BlockSetLegal(0, mTopMargin, mColumns, lines))

\* DECIC (CSI n ' }).
InsertColumns(n) ==
  LET after == mRightMargin - mCursorCol
      inserted == Least(n, after)
  IN Edits(/\ BlockCopyLegal(mCursorCol, 0, after - inserted, mRows, mCursorCol + inserted, 0)
           /\ BlockSetLegal(mCursorCol, 0, inserted, mRows))

\* DECDC (CSI n ' ~), which clears from column mCursorRow + ... .
DeleteColumns(n) ==
  LET after == mRightMargin - mCursorCol
      deleted == Least(n, after)
  IN /\ "deleteColumns" \in uses
     /\ Edits(/\ BlockCopyLegal(mCursorCol + deleted, 0, after - deleted, mRows, mCursorCol, 0)
              /\ BlockSetLegal(mCursorRow + (after - deleted), 0, deleted, mRows))

\* DECCRA (CSI p $ v).
CopyRectangle(p) ==
  LET topSource == Least(Wrapped(p[1] - 1 + EffectiveTop), mRows)
      leftSource == Least(Wrapped(p[2] - 1 + EffectiveLeft), mColumns)
      bottomSource == Least(Greatest(Wrapped(p[3] + EffectiveTop), topSource), mRows)
      rightSource == Least(Greatest(Wrapped(p[4] + EffectiveLeft), leftSource), mColumns)
      destinationTop == Least(Wrapped(p[5] - 1 + EffectiveTop), mRows)
      destinationLeft == Least(Wrapped(p[6] - 1 + EffectiveLeft), mColumns)
  IN Edits(BlockCopyLegal(leftSource, topSource,
                          Least(mColumns - destinationLeft, rightSource - leftSource),
                          Least(mRows - destinationTop, bottomSource - topSource),
                          destinationLeft, destinationTop))

\* DECFRA, DECERA and DECSERA (CSI p $ x, z and {).
FillRectangle(p) ==
  Edits(SetCharsLegal(Least(Wrapped(p[2] + EffectiveLeft), EffectiveRight + 1) - 1,
                      Least(Wrapped(p[1] + EffectiveTop), EffectiveBottom + 1) - 1,
                      Least(Wrapped(p[4] + EffectiveLeft), EffectiveRight),
                      Least(Wrapped(p[3] + EffectiveTop), EffectiveBottom)))

\* DECCARA and DECRARA (CSI p $ r and t).  The row just below the screen passes
\* the buffer's check; whether there is a row object is another matter (missing).
ChangeAttributes(p, rectangular, missing) ==
  LET top == Least(p[1] - 1, EffectiveBottom) + EffectiveTop
      left == Least(p[2] - 1, EffectiveRight) + EffectiveLeft
      bottom == Least(Wrapped(p[3] + 1), EffectiveBottom - 1) + EffectiveTop
      right == Least(Wrapped(p[4] + 1), EffectiveRight - 1) + EffectiveLeft
      startOfLastLine == IF rectangular \/ bottom - 1 = top THEN left ELSE EffectiveLeft
  IN /\ Origin => "rectangleAttributes" \in uses
     /\ Edits(top < bottom => /\ bottom - 1 <= mRows
                              /\ bottom - 1 = mRows => ~missing
                              /\ startOfLastLine < right => right <= mColumns)

-----------------------------------------------------------------------------
(* Modes, the alternate screen and the size                                *)

\* DECCOLM (DECSET and DECRST 3).
ColumnMode ==
  /\ Handler(BlockSetLegal(0, 0, mColumns, mRows))
  /\ DefaultMargins
  /\ flags' = flags \ {"leftRight"}
  /\ SetCursorRowCol(0, 0)
  /\ UNCHANGED screens

\* DECOM (DECSET and DECRST 6).
OriginMode(setting) ==
  /\ Handler(TRUE)
  /\ flags' = WithOrigin(setting)
  /\ IF setting THEN SetCursorHome(TRUE, mTopMargin, mLeftMargin) ELSE UNCHANGED cursor
  /\ UNCHANGED <<margins, screens>>

\* DECLRMM (DECSET and DECRST 69).
LeftRightMarginMode(setting) ==
  /\ setting => "sideMargins" \in uses
  /\ Handler(TRUE)
  /\ flags' = IF setting THEN flags \cup {"leftRight"} ELSE flags \ {"leftRight"}
  /\ IF setting THEN UNCHANGED <<mLeftMargin, mRightMargin>>
                ELSE mLeftMargin' = 0 /\ mRightMargin' = mColumns
  /\ UNCHANGED <<cursor, mTopMargin, mBottomMargin, screens>>

\* The cursor after TerminalBuffer.resize() of a screen of ownRows rows to the
\* size of the emulator, where the text decides: somewhere on the screen.  Only
\* a cursor that was below the screen can be below it afterwards.
ResizeScreen(row, col, ownRows, newRows, newColumns, pending) ==
  \/ \E y \in 0..newRows - 1, x \in 0..newColumns - 1 : CursorTo(y, x, pending)
  \/ /\ row >= Greatest(ownRows, newRows)
     /\ \E shift \in IF ownRows > newRows THEN {ownRows - newRows} ELSE ownRows - newRows .. 0 :
          CursorTo(Wrapped(row - shift), col, pending)

\* Only the width is compared.
NeedsResizeWidth(b) == size[b][1] # mColumns

\* The buffer was last shown in another size.
NeedsResize(b) == size[b] # <<mColumns, mRows>>

\* DECSET 47, 1047 and 1049 on the main screen.
EnterAlternateScreen ==
  LET resized == NeedsResize("alt")
  IN /\ "savedCursor" \in uses
     /\ mScreen = "main"
     /\ Handler(TRUE)
     /\ saved' = [saved EXCEPT !["main"] = Here]
     /\ mScreen' = "alt"
     /\ size' = IF resized THEN [size EXCEPT !["alt"] = <<mColumns, mRows>>] ELSE size
     /\ IF resized
          THEN ResizeScreen(mCursorRow, mCursorCol, size["alt"][2], mRows, mColumns, mAboutToAutoWrap)
          ELSE UNCHANGED cursor
     /\ UNCHANGED <<margins, flags, mRows, mColumns>>

\* DECRST 47, 1047 and 1049 on the alternate screen.
LeaveAlternateScreen ==
  LET resized == NeedsResize("main")
      state == saved["main"]
  IN /\ mScreen = "alt"
     /\ Handler(TRUE)
     /\ mScreen' = "main"
     /\ flags' = WithOrigin(state.origin)
     /\ size' = IF resized THEN [size EXCEPT !["main"] = <<mColumns, mRows>>] ELSE size
     /\ IF resized
          THEN ResizeScreen(state.row, state.col, size["main"][2], mRows, mColumns, FALSE)
          ELSE SetCursorRowCol(state.row, state.col)
     /\ UNCHANGED <<margins, mRows, mColumns, saved>>

\* The margins stay when the screen gets lower.
ResetMarginsGrowing(s) ==
  /\ IF s[2] > mRows THEN mTopMargin' = 0 /\ mBottomMargin' = s[2]
                     ELSE UNCHANGED <<mTopMargin, mBottomMargin>>
  /\ IF s[1] # mColumns THEN mLeftMargin' = 0 /\ mRightMargin' = s[1]
                        ELSE UNCHANGED <<mLeftMargin, mRightMargin>>

ResetMargins(s) ==
  /\ IF s[2] # mRows THEN mTopMargin' = 0 /\ mBottomMargin' = s[2]
                     ELSE UNCHANGED <<mTopMargin, mBottomMargin>>
  /\ IF s[1] # mColumns THEN mLeftMargin' = 0 /\ mRightMargin' = s[1]
                        ELSE UNCHANGED <<mLeftMargin, mRightMargin>>

\* resize() from TerminalSession.updateSize().
Resize(s) ==
  /\ s # <<mColumns, mRows>>
  /\ Handler(TRUE)
  /\ mColumns' = s[1] /\ mRows' = s[2]
  /\ ResetMargins(s)
  /\ size' = [size EXCEPT ![mScreen] = s]
  /\ ResizeScreen(mCursorRow, mCursorCol, mRows, s[2], s[1], mAboutToAutoWrap)
  /\ UNCHANGED <<flags, mScreen, saved>>

-----------------------------------------------------------------------------
Init ==
  \E s \in Sizes :
    /\ mColumns = s[1] /\ mRows = s[2]
    /\ mCursorRow = 0 /\ mCursorCol = 0 /\ mAboutToAutoWrap = FALSE
    /\ mTopMargin = 0 /\ mBottomMargin = s[2] /\ mLeftMargin = 0 /\ mRightMargin = s[1]
    /\ flags = {} /\ mScreen = "main"
    /\ size = [b \in {"main", "alt"} |-> s]
    /\ saved = [b \in {"main", "alt"} |-> Home]
    /\ threw = FALSE /\ uses \in Programs

Control ==
  \/ \E wrapped \in BOOLEAN : Backspace(wrapped)
  \/ \E pending \in BOOLEAN : Tab(pending)
  \/ BackTab \/ SetTabStop \/ Linefeed \/ NextLine \/ CarriageReturn
  \/ BackIndex \/ ForwardIndex \/ ReverseIndex \/ LowerLeft \/ AlignmentTest
  \/ SaveCursor \/ RestoreCursor
  \/ \E erase \in BOOLEAN : Reset(erase)

Move ==
  \/ \E n \in Args : \/ CursorUp(n) \/ CursorDown(n) \/ CursorForward(n) \/ CursorBackward(n)
                     \/ CursorNextLine(n) \/ CursorPreviousLine(n)
                     \/ ColumnAbsolute(n) \/ RowAbsolute(n) \/ ColumnPosition(n) \/ RowRelative(n)
  \/ \E n \in Args, m \in Args : CursorPosition(n, m)
  \/ \E n \in Args, m \in Args \cup {mRows} : SetTopBottomMargins(n, m)
  \/ \E n \in Args, m \in Args \cup {mColumns} : SetLeftRightMargins(n, m)

Edit ==
  \/ \E n \in Args : \/ InsertCharacters(n) \/ DeleteCharacters(n) \/ EraseCharacters(n)
                     \/ InsertLines(n) \/ DeleteLines(n) \/ ScrollDown(n)
                     \/ InsertColumns(n) \/ DeleteColumns(n)
  \/ \E n \in 0..3 : EraseInDisplay(n)
  \/ \E n \in 0..2 : EraseInLine(n)
  \/ \E n \in 0..2, justRow \in BOOLEAN : SelectiveErase(n, justRow)
  \/ ScrollUp
  \/ \E p \in Rectangles :
       /\ \A i \in 1..6 : p[i] \in Args
       /\ \/ CopyRectangle(p) \/ FillRectangle(p)
          \/ \E rectangular \in BOOLEAN, missing \in BOOLEAN : ChangeAttributes(p, rectangular, missing)

Mode ==
  \/ ColumnMode
  \/ \E setting \in BOOLEAN : OriginMode(setting) \/ LeftRightMarginMode(setting)
  \/ EnterAlternateScreen \/ LeaveAlternateScreen
  \/ \E s \in Sizes : Resize(s)

Next ==
  \/ \E width \in 0..2, autoWrap \in BOOLEAN, insert \in BOOLEAN : EmitCodePoint(width, autoWrap, insert)
  \/ Control \/ Move \/ Edit \/ Mode

Spec == Init /\ [][Next]_vars

-----------------------------------------------------------------------------
(* Properties                                                              *)

Buffer == {"main", "alt"}

TypeOK ==
  /\ mRows \in Nat /\ mColumns \in Nat /\ <<mColumns, mRows>> \in Sizes
  /\ mCursorRow \in Int /\ mCursorCol \in Int /\ mAboutToAutoWrap \in BOOLEAN
  /\ mTopMargin \in Nat /\ mBottomMargin \in Nat /\ mLeftMargin \in Nat /\ mRightMargin \in Nat
  /\ flags \subseteq {"origin", "leftRight"}
  /\ mScreen \in Buffer
  /\ size \in [Buffer -> Sizes]
  /\ saved \in [Buffer -> [row : Int, col : Int, origin : BOOLEAN]]
  /\ threw \in BOOLEAN /\ uses \in Programs

\* "Top margin of screen for scrolling ranges from 0 to mRows-2. Bottom margin
\* ranges from mTopMargin + 2 to mRows": after every sequence and every resize,
\* whatever the parameters, and the left margin stays left of the right one.
MarginsOrdered ==
  /\ mTopMargin <= mRows - 2
  /\ mTopMargin + 2 <= mBottomMargin /\ mBottomMargin <= mRows
  /\ mLeftMargin <= mColumns - 2
  /\ mLeftMargin < mRightMargin /\ mRightMargin <= mColumns

\* The buffer that is written to has the size of the emulator, though resize()
\* only resizes the active one and the other one is adjusted when it is shown.
ActiveBufferFits == size[mScreen] = <<mColumns, mRows>>

OnScreen(row, col, s) == 0 <= row /\ row < s[2] /\ 0 <= col /\ col < s[1]

\* The cursor stays on the screen through any sequences and resizes, as long as
\* the program sets no left and right margins and no parameter is so large that
\* adding it to a position overflows.
CursorBounded ==
  uses \cap {"sideMargins", "largeParameters"} = {} =>
    OnScreen(mCursorRow, mCursorCol, <<mColumns, mRows>>)

\* No call on TerminalBuffer is refused with an exception, for a program that
\* uses none of the four Hazards.
CallsAccepted == uses \cap Hazards = {} => ~threw

KeepsMainCursor ==
  uses \cap {"sideMargins", "largeParameters"} = {} =>
    /\ mScreen = "main" /\ mScreen' = "alt" => saved'["main"] = Here
    /\ mScreen = "alt" => saved'["main"] \in {saved["main"], Home}
    /\ mScreen = "alt" /\ mScreen' = "main" /\ size["main"] = <<mColumns, mRows>> =>
         mCursorRow' = saved["main"].row /\ mCursorCol' = saved["main"].col

\* The cursor of the main screen survives the alternate screen: entering saves
\* it, nothing on the alternate screen but a reset changes what was saved, and
\* leaving puts the cursor there, if the screen was not resized meanwhile.
AlternateKeepsCursor == [][KeepsMainCursor]_vars

\* "The cursor position. Between (0,0) and (mRows-1, mColumns-1)."
CursorInBounds == OnScreen(mCursorRow, mCursorCol, <<mColumns, mRows>>)
=============================================================================
