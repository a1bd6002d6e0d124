--------------------------- MODULE TerminalBuffer ---------------------------
(***************************************************************************)
(* TerminalBuffer: a ring of rows of which mScreenRows are the screen and  *)
(* mActiveTranscriptRows before them the scroll history.  The methods are  *)
(* operators on the record of the buffer's fields, so that resize() can    *)
(* call the others as the code does, and an action is one call by the      *)
(* emulator.  Rows hold characters one column wide and no styles.          *)
(***************************************************************************)
EXTENDS Integers, Sequences, FiniteSets

CONSTANTS
  Letter,      \* characters other than the space; bound: each is on a screen once
  Space,
  Null,
  TotalRows,   \* rows of the main buffer, screen and history
  Sizes        \* the sizes <<columns, rows>> the view asks for

ASSUME BufferAssumption ==
  /\ Space \notin Letter
  /\ TotalRows \in Nat
  /\ Sizes \subseteq (Nat \ {0, 1}) \X (2..TotalRows)

VARIABLES
  buf,     \* the fields of the buffer
  alt      \* whether it is mAltBuffer

vars == <<buf, alt>>

-----------------------------------------------------------------------------
(* TerminalRow, as far as its columns are all one char wide                *)

BlankText(columns) == [x \in 0..columns - 1 |-> Space]
NewRow(columns) == [text |-> BlankText(columns), wrap |-> FALSE]

\* clear() leaves mLineWrap as it was.
Cleared(line, columns) ==
  IF line = Null THEN NewRow(columns) ELSE [line EXCEPT !.text = BlankText(columns)]

IsBlank(line) == line = Null \/ \A x \in DOMAIN line.text : line.text[x] = Space

-----------------------------------------------------------------------------
(* The ring                                                                *)

ExternalToInternalRow(b, row) ==
  LET internalRow == b.first + row
  IN IF internalRow < 0 THEN b.total + internalRow ELSE internalRow % b.total

Line(b, row) == b.lines[ExternalToInternalRow(b, row)]

AllocateFullLineIfNecessary(b, i) ==
  IF b.lines[i] = Null THEN [b EXCEPT !.lines[i] = NewRow(b.columns)] ELSE b

SetChar(b, column, row, c) ==
  LET i == ExternalToInternalRow(b, row)
  IN [AllocateFullLineIfNecessary(b, i) EXCEPT !.lines[i].text[column] = c]

SetLineWrap(b, row, on) == [b EXCEPT !.lines[ExternalToInternalRow(b, row)].wrap = on]

\* Mutant of BlockCopyLinesDown: without the wrap around the end of the ring.
BlockCopyLinesDownFlat(b, src, len) ==
  [b EXCEPT !.lines =
     [i \in DOMAIN @ |->
        CASE i \in src + 1 .. src + len            -> @[i - 1]
          [] i = src /\ src + len \in DOMAIN @ -> @[src + len]
          [] OTHER                              -> @[i]]]

\* len rows from src move one down, and the row below them goes above them.
BlockCopyLinesDown(b, src, len) ==
  [b EXCEPT !.lines =
     [i \in DOMAIN @ |->
        CASE \E k \in 1..len : i = (src + k) % b.total -> @[(i + b.total - 1) % b.total]
          [] i = src % b.total                         -> @[(src + len) % b.total]
          [] OTHER                                     -> @[i]]]

\* Mutant of HistoryGrows: one row of the screen is counted as history too.
HistoryGrowsLate(b) == b.active <= b.total - b.rows

\* "Note that the history has grown if not already full"
HistoryGrows(b) == b.active < b.total - b.rows

\* scrollDownOneLine: the rows above topMargin and from bottomMargin on stay
\* where they are on the screen, which itself moves on by one row.
ScrollDownOneLine(b, topMargin, bottomMargin) ==
  LET fixed  == BlockCopyLinesDown(BlockCopyLinesDown(b, b.first, topMargin),
                                   ExternalToInternalRow(b, bottomMargin), b.rows - bottomMargin)
      moved  == [fixed EXCEPT !.first = (@ + 1) % b.total,
                              !.active = IF HistoryGrows(b) THEN @ + 1 ELSE @]
      blank  == ExternalToInternalRow(moved, bottomMargin - 1)
  IN [moved EXCEPT !.lines[blank] = Cleared(@, b.columns)]

\* blockCopy: row by row, from the side on which source and target do not overlap.
BlockCopy(b, sx, sy, w, h, dx, dy) ==
  LET y2(y) == IF sy > dy THEN y ELSE h - (y + 1)
      row(c, y) ==
        LET s == Line(c, sy + y2(y)).text
        IN [c EXCEPT !.lines[ExternalToInternalRow(c, dy + y2(y))].text =
              [x \in DOMAIN @ |-> IF x \in dx .. dx + w - 1 THEN s[sx + x - dx] ELSE @[x]]]
      copied[y \in 0..h] == IF y = 0 THEN b ELSE row(copied[y - 1], y - 1)
  IN copied[h]

\* blockSet with a space: the emulator's blockClear().
BlockSet(b, sx, sy, w, h, c) ==
  [b EXCEPT !.lines =
     [i \in DOMAIN @ |->
        IF \E y \in sy .. sy + h - 1 : i = ExternalToInternalRow(b, y)
        THEN [Cleared(@[i], b.columns) EXCEPT !.text =
                [x \in 0..b.columns - 1 |->
                   IF x \in sx .. sx + w - 1 THEN c
                   ELSE IF b.lines[i] = Null THEN Space ELSE b.lines[i].text[x]]]
        ELSE @[i]]]

ClearTranscript(b) ==
  LET gone == IF b.first < b.active
              THEN (b.total + b.first - b.active .. b.total - 1) \cup (0 .. b.first - 1)
              ELSE b.first - b.active .. b.first - 1
  IN [b EXCEPT !.lines = [i \in DOMAIN @ |-> IF i \in gone THEN Null ELSE @[i]],
               !.active = 0]

-----------------------------------------------------------------------------
(* resize()                                                                *)

\* Mutant of ShiftDownOfTopRow: blank rows above the cursor count too.
ShiftDownAnyBlanks(b, newRows, cursorRow) ==
  LET wanted == b.rows - newRows
      blanks == Cardinality({i \in 1 .. b.rows - 1 : IsBlank(Line(b, i))})
  IN IF wanted > 0
     THEN IF blanks > wanted THEN 0 ELSE wanted - blanks
     ELSE IF wanted < -b.active THEN -b.active ELSE wanted

\* Mutant of ShiftDownOfTopRow: more rows than the history has come back.
ShiftDownUnbounded(b, newRows, cursorRow) == b.rows - newRows

\* How many rows the screen moves down in the ring when only its height
\* changes: blank rows below the cursor are skipped instead, and it moves up
\* only as far as there is history.
ShiftDownOfTopRow(b, newRows, cursorRow) ==
  LET wanted == b.rows - newRows
      blanks == Cardinality({i \in cursorRow + 1 .. b.rows - 1 : IsBlank(Line(b, i))})
  IN IF wanted > 0
     THEN IF blanks > wanted THEN 0 ELSE wanted - blanks
     ELSE IF wanted < -b.active THEN -b.active ELSE wanted

\* "Fast resize where just the rows changed."
FastResize(b, newRows, newTotalRows, cur) ==
  LET shift == ShiftDownOfTopRow(b, newRows, cur[2])
      below == {(b.first + b.rows + i) % b.total : i \in 0 .. shift - (b.rows - newRows) - 1}
      first == b.first + shift
  IN [buf |-> [b EXCEPT
        !.lines  = [i \in DOMAIN @ |-> IF newRows > b.rows /\ i \in below
                                       THEN Cleared(@[i], b.columns) ELSE @[i]],
        !.first  = IF first < 0 THEN first + b.total ELSE first % b.total,
        !.total  = newTotalRows,
        !.active = IF alt \/ @ + shift < 0 THEN 0 ELSE @ + shift,
        !.rows   = newRows],
      cursor |-> <<cur[1], cur[2] - shift>>]

\* The loop of the slow path writes into the new buffer s.buf at s.row, s.column;
\* s.cursor is where the cursor was placed, <<-1, -1>> before.
Placed(s) == s.cursor # <<-1, -1>>

\* Mutant of NextRow: the cursor does not follow the text that scrolls.
NextRowLeavesCursor(s, cursorFollows) ==
  IF s.row = s.buf.rows - 1
  THEN [s EXCEPT !.buf = ScrollDownOneLine(@, 0, s.buf.rows), !.column = 0]
  ELSE [s EXCEPT !.row = @ + 1, !.column = 0]

\* To the start of the next row.  The cursor follows the text that scrolls,
\* except in the loop that inserts the skipped blank lines.
NextRow(s, cursorFollows) ==
  IF s.row = s.buf.rows - 1
  THEN [s EXCEPT !.buf = ScrollDownOneLine(@, 0, s.buf.rows),
                 !.cursor = IF cursorFollows /\ Placed(s) THEN <<@[1], @[2] - 1>> ELSE @,
                 !.column = 0]
  ELSE [s EXCEPT !.row = @ + 1, !.column = 0]

CopyChar(s, c, isCursor) ==
  LET at == IF s.column + 1 > s.buf.columns
            THEN NextRow([s EXCEPT !.buf = SetLineWrap(@, s.row, TRUE)], TRUE)
            ELSE s
  IN [at EXCEPT !.buf = SetChar(@, at.column, at.row, c),
                !.cursor = IF isCursor THEN <<at.column, at.row>> ELSE @,
                !.column = @ + 1]

\* One row of the old buffer b.  Blank rows are only counted until a row that
\* is not blank follows.  Of the row with the cursor nothing right of the
\* cursor is copied; of another row everything if it was wrapped, otherwise
\* what is left of its trailing spaces.
CopyRow(b, cur, s, row) ==
  LET line     == Line(b, row)
      isCursor == row = cur[2]
      skipped[k \in 0..s.skipped] == IF k = 0 THEN s ELSE NextRow(skipped[k - 1], FALSE)
      start    == [skipped[s.skipped] EXCEPT !.skipped = 0]
      used     == {x \in 0..b.columns - 1 : line.text[x] # Space}
      length   == IF isCursor /\ cur[1] < b.columns THEN cur[1] + 1
                  ELSE IF isCursor \/ line.wrap THEN b.columns
                  ELSE IF used = {} THEN 0 ELSE 1 + CHOOSE x \in used : \A y \in used : y <= x
      copied[x \in 0..length] ==
        IF x = 0 THEN start
        ELSE CopyChar(copied[x - 1], line.text[x - 1], isCursor /\ x - 1 = cur[1])
  IN IF line = Null \/ (~isCursor /\ IsBlank(line))
     THEN [s EXCEPT !.skipped = @ + 1]
     ELSE IF row # b.rows - 1 /\ ~line.wrap THEN NextRow(copied[length], TRUE) ELSE copied[length]

\* The slow path: all rows, oldest first, are written to a new ring.
SlowResize(b, newColumns, newRows, newTotalRows, cur) ==
  LET empty == [lines |-> [i \in 0..newTotalRows - 1 |-> NewRow(newColumns)],
                total |-> newTotalRows, rows |-> newRows, columns |-> newColumns,
                active |-> 0, first |-> 0]
      start == [buf |-> empty, row |-> 0, column |-> 0, cursor |-> <<-1, -1>>, skipped |-> 0]
      copied[n \in 0..b.active + b.rows] ==
        IF n = 0 THEN start ELSE CopyRow(b, cur, copied[n - 1], n - 1 - b.active)
  IN [buf |-> copied[b.active + b.rows].buf, cursor |-> copied[b.active + b.rows].cursor]

\* resize(): the caller passes mTotalRows for the main buffer, the number of
\* rows for the alternate one.
Resized(b, newColumns, newRows, cur) ==
  LET newTotalRows == IF alt THEN newRows ELSE b.total
      r == IF newColumns = b.columns /\ newRows <= b.total
           THEN FastResize(b, newRows, newTotalRows, cur)
           ELSE SlowResize(b, newColumns, newRows, newTotalRows, cur)
  IN IF r.cursor[1] < 0 \/ r.cursor[2] < 0 THEN [r EXCEPT !.cursor = <<0, 0>>] ELSE r

-----------------------------------------------------------------------------
(* Calls by the emulator                                                   *)

Columns == 0..buf.columns - 1
Rows == 0..buf.rows - 1
OnBuffer == {Line(buf, y).text[x] : x \in Columns, y \in -buf.active .. buf.rows - 1}

Init ==
  /\ alt \in BOOLEAN
  /\ \E size \in Sizes :
       LET total == IF alt THEN size[2] ELSE TotalRows
       IN buf = [lines |-> [i \in 0..total - 1 |-> IF i < size[2] THEN NewRow(size[1]) ELSE Null],
                 total |-> total, rows |-> size[2], columns |-> size[1], active |-> 0, first |-> 0]

Call(b) == buf' = b /\ UNCHANGED alt

PutChar(c, x, y) == c \notin OnBuffer /\ Call(SetChar(buf, x, y, c))

\* The cursor goes on to the next row after output in the last column, or back.
Wrap(y, on) ==
  /\ on => Line(buf, y).text[buf.columns - 1] # Space
  /\ Call(SetLineWrap(buf, y, on))

\* DECSTBM leaves at least two rows between the margins.
Scroll(top, bottom) == top + 2 <= bottom /\ Call(ScrollDownOneLine(buf, top, bottom))

\* Erasing to the end of a line.
Erase(x, y) == Call(BlockSet(buf, x, y, buf.columns - x, 1, Space))

\* Deleting or inserting lines: the rows down to the bottom of the screen move
\* from sy to dy, and the rows they leave are erased by the same sequence.
MoveLines(sy, dy) ==
  /\ sy # dy
  /\ LET h == buf.rows - (IF sy > dy THEN sy ELSE dy)
         b == BlockCopy(buf, 0, sy, buf.columns, h, 0, dy)
     IN Call(IF dy < sy THEN BlockSet(b, 0, dy + h, buf.columns, sy - dy, Space)
                        ELSE BlockSet(b, 0, sy, buf.columns, dy - sy, Space))

EraseHistory == ~alt /\ Call(ClearTranscript(buf))

\* resize() to another size, with the emulator's cursor at cur = <<column, row>>.
Resize(size, cur) ==
  size # <<buf.columns, buf.rows>> /\ Call(Resized(buf, size[1], size[2], cur).buf)

Next ==
  \/ \E x \in Columns, y \in Rows, c \in Letter : PutChar(c, x, y)
  \/ \E y \in Rows, on \in BOOLEAN : Wrap(y, on)
  \/ \E top \in Rows, bottom \in 1..buf.rows : Scroll(top, bottom)
  \/ \E x \in Columns, y \in Rows : Erase(x, y)
  \/ \E sy \in Rows, dy \in Rows : MoveLines(sy, dy)
  \/ EraseHistory
  \/ \E size \in Sizes, x \in Columns, y \in Rows : Resize(size, <<x, y>>)

Spec == Init /\ [][Next]_vars

-----------------------------------------------------------------------------
(* Properties                                                              *)

\* The ring is large enough for screen and history, and rows have the width of
\* the screen.
TypeOK ==
  /\ alt \in BOOLEAN
  /\ <<buf.columns, buf.rows>> \in Sizes
  /\ buf.total \in 1..TotalRows /\ DOMAIN buf.lines = 0..Cardinality(DOMAIN buf.lines) - 1
  /\ buf.total <= Cardinality(DOMAIN buf.lines)
  /\ buf.first \in DOMAIN buf.lines
  /\ buf.active \in Nat /\ buf.active + buf.rows <= buf.total
  /\ \A i \in DOMAIN buf.lines : buf.lines[i] # Null =>
       /\ DOMAIN buf.lines[i].text = Columns
       /\ buf.lines[i].wrap \in BOOLEAN

\* Every row of the screen and of the history is allocated: getSelectedText(),
\* getLineWrap() and the renderer use mLines[...] without a test for null, while
\* clearTranscript() sets rows to null and resize() brings rows back.
RowsExist == \A y \in -buf.active .. buf.rows - 1 : Line(buf, y) # Null

\* Wherever the cursor is, resize() returns one on the resized screen, whatever
\* scrolls and however many blank rows are skipped: also for a cursor of the
\* new size, which the emulator passes when it shows the alternate screen again.
CursorOnScreen ==
  \A size \in Sizes \ {<<buf.columns, buf.rows>>} :
    LET resized == (0..size[1] - 1) \X (0..size[2] - 1)
    IN \A cur \in (Columns \X Rows) \cup (IF alt THEN resized ELSE {}) :
         Resized(buf, size[1], size[2], cur).cursor \in resized

TextOf(line) == IF line = Null THEN << >> ELSE [x \in 1..buf.columns |-> line.text[x - 1]]

Text == INSTANCE ScreenText WITH
  Capacity <- TotalRows, alternate <- alt,
  history <- [i \in 1..buf.active |-> TextOf(Line(buf, i - 1 - buf.active))],
  screen <- [i \in 1..buf.rows |-> TextOf(Line(buf, i - 1))]

\* The ring implements a screen with a history: scrolling between any margins
\* moves exactly the rows it should, at whatever index the ring wraps; editing
\* never reaches the history; a change of height keeps the rows in order; and a
\* change of width keeps the printed text in order and drops only the oldest.
ImplementsText == Text!TextSpec

\* The cursor stays on its character in resize(), if nothing is printed below
\* the cursor's row and the character stays on the screen.
CursorFollowsText ==
  \A size \in Sizes \ {<<buf.columns, buf.rows>>}, x \in Columns, y \in Rows :
    LET c == Line(buf, y).text[x]
        r == Resized(buf, size[1], size[2], <<x, y>>)
    IN /\ ~alt /\ c \in Letter
       /\ \A i \in y + 1 .. buf.rows - 1 : IsBlank(Line(buf, i))
       /\ \E i \in 0..size[1] - 1, j \in 0..size[2] - 1 : Line(r.buf, j).text[i] = c
       => Line(r.buf, r.cursor[2]).text[r.cursor[1]] = c

-----------------------------------------------------------------------------
(* What comments in the code say and the code does not do                  *)

\* "Check if we can skip blank rows at bottom below cursor": a row that a lower
\* screen does not show any more, and that is not in the history, is blank.
OnlyBlankRowsSkipped ==
  [][buf'.rows < buf.rows /\ buf'.columns = buf.columns /\ ~alt =>
       \A y \in (buf'.rows + buf'.active - buf.active) .. buf.rows - 1 : IsBlank(Line(buf, y))]_vars
=============================================================================
