----------------------- MODULE TerminalEmulatorProofs -----------------------
(***************************************************************************)
(* The invariants of TerminalEmulator for screens of every size and        *)
(* control sequences with every parameter.  Inv adds to the properties     *)
(* that without DECLRMM there are no side margins, and that on the         *)
(* alternate screen the saved cursor of the main one fits the main buffer. *)
(***************************************************************************)
EXTENDS TerminalEmulator, TLAPS

Tame == uses \cap {"sideMargins", "largeParameters"} = {}
Harmless == uses \cap Hazards = {}

NoSideMargins ==
  "sideMargins" \notin uses =>
    "leftRight" \notin flags /\ mLeftMargin = 0 /\ mRightMargin = mColumns

SavedCursorFits ==
  Tame /\ mScreen = "alt" => OnScreen(saved["main"].row, saved["main"].col, size["main"])

Inv ==
  /\ TypeOK
  /\ MarginsOrdered
  /\ ActiveBufferFits
  /\ NoSideMargins
  /\ CursorBounded
  /\ SavedCursorFits
  /\ CallsAccepted

\* What the arithmetic of the handlers needs to know of a state.
Geometry ==
  /\ mRows \in Nat /\ mColumns \in Nat /\ mRows >= 2 /\ mColumns >= 2
  /\ 2 * mRows <= IntMax /\ 2 * mColumns <= IntMax /\ IntMax \in Nat
  /\ mTopMargin \in Nat /\ mBottomMargin \in Nat /\ mLeftMargin \in Nat /\ mRightMargin \in Nat
  /\ mCursorRow \in Int /\ mCursorCol \in Int
  /\ MarginsOrdered
  /\ size[mScreen][1] = mColumns /\ size[mScreen][2] = mRows

OnTheScreen == 0 <= mCursorRow /\ mCursorRow < mRows /\ 0 <= mCursorCol /\ mCursorCol < mColumns
NoMargins == mLeftMargin = 0 /\ mRightMargin = mColumns

Facts ==
  /\ Geometry
  /\ Tame => OnTheScreen /\ NoMargins
  /\ Harmless => Tame

LEMMA InvFacts ==
  ASSUME Inv
  PROVE  Facts
<1>1. <<mColumns, mRows>> \in Sizes /\ TypeOK
  BY DEF Inv, TypeOK
<1>2. mRows >= 2 /\ mColumns >= 2 /\ 2 * mRows <= IntMax /\ 2 * mColumns <= IntMax /\ IntMax \in Nat
  BY <1>1, EmulatorAssumption
<1>3. size[mScreen][1] = mColumns /\ size[mScreen][2] = mRows
  BY DEF Inv, ActiveBufferFits
<1>4. Geometry
  BY <1>1, <1>2, <1>3 DEF Geometry, Inv, TypeOK
<1>5. Tame => OnTheScreen
  BY DEF Inv, Tame, CursorBounded, OnScreen, OnTheScreen
<1>6. Tame => NoMargins
  BY DEF Inv, Tame, NoSideMargins, NoMargins
<1>7. Harmless => Tame
  BY DEF Harmless, Tame, Hazards
<1> QED
  BY <1>4, <1>5, <1>6, <1>7 DEF Facts

\* A handler that only moves the cursor, and keeps a cursor on the screen there.
LEMMA MovesKeepInv ==
  ASSUME Inv, MovesOnly, uses' = uses,
         mCursorRow' \in Int, mCursorCol' \in Int, mAboutToAutoWrap' \in BOOLEAN,
         threw' \in BOOLEAN,
         Tame => 0 <= mCursorRow' /\ mCursorRow' < mRows /\ 0 <= mCursorCol' /\ mCursorCol' < mColumns,
         Harmless => ~threw'
  PROVE  Inv'
<1> USE DEF MovesOnly, margins, screens
<1>1. TypeOK'
  BY DEF Inv, TypeOK
<1>2. MarginsOrdered' /\ ActiveBufferFits' /\ NoSideMargins'
  BY DEF Inv, MarginsOrdered, ActiveBufferFits, NoSideMargins
<1>3. CursorBounded'
  BY DEF Tame, CursorBounded, OnScreen
<1>4. SavedCursorFits'
  BY DEF Inv, SavedCursorFits, Tame, OnScreen
<1>5. CallsAccepted'
  BY DEF Harmless, CallsAccepted
<1> QED
  BY <1>1, <1>2, <1>3, <1>4, <1>5 DEF Inv

-----------------------------------------------------------------------------
(* Characters and C0 controls                                              *)

LEMMA ScrollLegal == Geometry => ScrollDownOneLineLegal
  BY DEF Geometry, MarginsOrdered, ScrollDownOneLineLegal, BlockCopyLegal, BlockSetLegal

LEMMA LinefeedKeepsInv ==
  ASSUME Inv, NEW col \in Int, NEW pending \in BOOLEAN, DoLinefeed(col, pending),
         Tame => 0 <= col /\ col < mColumns
  PROVE  Inv'
<1>1. Facts
  BY InvFacts
<1>2. /\ MovesOnly /\ uses' = uses /\ threw' \in BOOLEAN
      /\ mCursorCol' = col /\ mAboutToAutoWrap' \in BOOLEAN
  BY DEF DoLinefeed, Handler, CursorTo
<1>3. ~threw'
  BY <1>1, ScrollLegal DEF Facts, DoLinefeed, Handler
<1>4. mCursorRow' \in Int
  BY <1>1 DEF Facts, DoLinefeed, Geometry, CursorTo, Wrapped
<1>5. Tame => 0 <= mCursorRow' /\ mCursorRow' < mRows
  BY <1>1 DEF Facts, DoLinefeed, Geometry, MarginsOrdered, OnTheScreen, CursorTo, Wrapped
<1> QED
  BY <1>2, <1>3, <1>4, <1>5, MovesKeepInv

LEMMA EmitCodePointKeepsInv ==
  ASSUME Inv, NEW width \in 0..2, NEW autoWrap \in BOOLEAN, NEW insert \in BOOLEAN,
         EmitCodePoint(width, autoWrap, insert)
  PROVE  Inv'
<1> DEFINE last == mCursorCol = mRightMargin - 1
           wraps == autoWrap /\ last /\ ((mAboutToAutoWrap /\ width = 1) \/ width = 2)
           scrolls == wraps /\ mCursorRow + 1 >= mBottomMargin
           row == IF wraps /\ ~scrolls THEN mCursorRow + 1 ELSE mCursorRow
           col == IF wraps THEN mLeftMargin ELSE mCursorCol
           offset == IF width = 0 /\ col > 0 /\ ~mAboutToAutoWrap THEN 1 ELSE 0
<1>1. Facts /\ mAboutToAutoWrap \in BOOLEAN
  BY InvFacts DEF Inv, TypeOK
<1>2. /\ MovesOnly /\ uses' = uses /\ threw' \in BOOLEAN
      /\ mAboutToAutoWrap' \in BOOLEAN
  BY <1>1 DEF EmitCodePoint, Handler, CursorTo
<1>3. /\ ~(~autoWrap /\ last /\ width = 2)
      /\ mCursorRow' = row /\ mCursorCol' = Least(col + width, mRightMargin - 1)
  BY DEF EmitCodePoint, CursorTo
<1>4. row \in Int /\ col \in Int /\ mCursorRow' \in Int /\ mCursorCol' \in Int
  BY <1>1, <1>3 DEF Facts, Geometry, Least
<1>5. ASSUME Tame
      PROVE  /\ 0 <= row /\ row < mRows /\ 0 <= col /\ col < mColumns
             /\ width = 2 => col # mColumns - 1
  BY <1>1, <1>3, <1>5 DEF Facts, Geometry, MarginsOrdered, OnTheScreen, NoMargins
<1>6. Tame => 0 <= mCursorCol' /\ mCursorCol' < mColumns
  BY <1>1, <1>3, <1>4, <1>5 DEF Facts, Geometry, MarginsOrdered, NoMargins, Least
<1>7. ASSUME Tame
      PROVE  ~threw'
  <2>1. LineWrapLegal(mCursorRow) /\ ScrollDownOneLineLegal
    BY <1>1, <1>7, ScrollLegal DEF Facts, Geometry, OnTheScreen, LineWrapLegal
  <2>2. col + width < mRightMargin =>
          BlockCopyLegal(col, row, mRightMargin - (col + width), 1, col + width, row)
    BY <1>1, <1>4, <1>5, <1>7 DEF Facts, Geometry, MarginsOrdered, BlockCopyLegal, BlockSetLegal
  <2>3. SetCharLegal(col - offset, row)
    BY <1>1, <1>4, <1>5, <1>7 DEF Facts, Geometry, SetCharLegal
  <2> QED
    BY <1>5, <1>7, <2>1, <2>2, <2>3, Zenon DEF EmitCodePoint, Handler
<1> QED
  BY <1>1, <1>2, <1>3, <1>4, <1>5, <1>6, <1>7, MovesKeepInv DEF Facts

LEMMA BackspaceKeepsInv ==
  ASSUME Inv, NEW wrapped \in BOOLEAN, Backspace(wrapped)
  PROVE  Inv'
<1>1. Facts /\ mAboutToAutoWrap \in BOOLEAN
  BY InvFacts DEF Inv, TypeOK
<1>2. /\ MovesOnly /\ uses' = uses /\ threw' \in BOOLEAN
      /\ mAboutToAutoWrap' \in BOOLEAN
  BY <1>1 DEF Backspace, Handler, SetCursorCol, SetCursorRowCol, CursorTo, cursor
<1>3. mCursorRow' \in Int /\ mCursorCol' \in Int
  BY <1>1 DEF Facts, Geometry, Backspace, SetCursorCol, SetCursorRowCol, CursorTo, cursor, Least, Greatest
<1>4. Tame => /\ 0 <= mCursorRow' /\ mCursorRow' < mRows
              /\ 0 <= mCursorCol' /\ mCursorCol' < mColumns
  BY <1>1 DEF Facts, Geometry, MarginsOrdered, OnTheScreen, NoMargins,
              Backspace, SetCursorCol, SetCursorRowCol, CursorTo, cursor, Least, Greatest
<1>5. Harmless => ~threw'
  <2>1. Harmless => (mLeftMargin = mCursorCol /\ mCursorRow > 0 => LineWrapLegal(mCursorRow - 1))
    BY <1>1 DEF Facts, Geometry, OnTheScreen, LineWrapLegal
  <2> QED
    BY <2>1, Zenon DEF Backspace, Handler
<1> QED
  BY <1>2, <1>3, <1>4, <1>5, MovesKeepInv

LEMMA TabKeepsInv ==
  ASSUME Inv, NEW pending \in BOOLEAN, Tab(pending)
  PROVE  Inv'
<1>1. Facts
  BY InvFacts
<1>2. /\ MovesOnly /\ uses' = uses /\ threw' \in BOOLEAN
      /\ mAboutToAutoWrap' \in BOOLEAN /\ mCursorRow' = mCursorRow /\ mCursorCol' \in NextTabStops
  BY DEF Tab, Handler, CursorTo
<1>3. mCursorCol' \in Int /\ (Tame => 0 <= mCursorCol' /\ mCursorCol' < mColumns)
  BY <1>1, <1>2 DEF Facts, Geometry, MarginsOrdered, OnTheScreen, NoMargins, NextTabStops, Least
<1>4. Harmless => ~threw'
  <2>1. Harmless => (mCursorCol + 1 >= 0)
    BY <1>1 DEF Facts, Geometry, OnTheScreen
  <2> QED
    BY <2>1, Zenon DEF Tab, Handler
<1>5. mCursorRow' \in Int /\ (Tame => 0 <= mCursorRow' /\ mCursorRow' < mRows)
  BY <1>1, <1>2 DEF Facts, Geometry, OnTheScreen
<1> QED
  BY <1>2, <1>3, <1>4, <1>5, MovesKeepInv

LEMMA BackTabKeepsInv ==
  ASSUME Inv, BackTab
  PROVE  Inv'
<1>1. Facts /\ mAboutToAutoWrap \in BOOLEAN
  BY InvFacts DEF Inv, TypeOK
<1>2. /\ MovesOnly /\ uses' = uses /\ threw' \in BOOLEAN
      /\ mAboutToAutoWrap' \in BOOLEAN /\ mCursorRow' = mCursorRow /\ mCursorCol' \in PreviousTabStops
  BY <1>1 DEF BackTab, Handler, CursorTo
<1>3. mCursorCol' \in Int /\ (Tame => 0 <= mCursorCol' /\ mCursorCol' < mColumns)
  BY <1>1, <1>2 DEF Facts, Geometry, MarginsOrdered, OnTheScreen, NoMargins, PreviousTabStops, Greatest
<1>4. Harmless => ~threw'
  <2>1. Harmless => (mCursorCol <= mColumns)
    BY <1>1 DEF Facts, Geometry, OnTheScreen
  <2> QED
    BY <2>1, Zenon DEF BackTab, Handler
<1>5. mCursorRow' \in Int /\ (Tame => 0 <= mCursorRow' /\ mCursorRow' < mRows)
  BY <1>1, <1>2 DEF Facts, Geometry, OnTheScreen
<1> QED
  BY <1>2, <1>3, <1>4, <1>5, MovesKeepInv

\* A handler that leaves the cursor where it is.
Stays ==
  /\ MovesOnly /\ uses' = uses /\ threw' \in BOOLEAN
  /\ mCursorRow' = mCursorRow /\ mCursorCol' = mCursorCol
  /\ mAboutToAutoWrap' = mAboutToAutoWrap \/ mAboutToAutoWrap' = FALSE

LEMMA StaysKeepInv ==
  ASSUME Inv, Stays, Harmless => ~threw'
  PROVE  Inv'
<1>1. Facts /\ mAboutToAutoWrap \in BOOLEAN
  BY InvFacts DEF Inv, TypeOK
<1>2. mAboutToAutoWrap' \in BOOLEAN /\ MovesOnly /\ uses' = uses /\ threw' \in BOOLEAN
  BY <1>1 DEF Stays
<1>3. /\ mCursorRow' \in Int /\ mCursorCol' \in Int
      /\ Tame => /\ 0 <= mCursorRow' /\ mCursorRow' < mRows
                 /\ 0 <= mCursorCol' /\ mCursorCol' < mColumns
  BY <1>1 DEF Facts, Geometry, OnTheScreen, Stays
<1> QED
  BY <1>2, <1>3, MovesKeepInv

LEMMA SetTabStopKeepsInv ==
  ASSUME Inv, SetTabStop
  PROVE  Inv'
<1>1. Facts
  BY InvFacts
<1>2. Stays
  BY DEF SetTabStop, Handler, Stays, cursor
<1>3. Harmless => mCursorCol \in Columns
  BY <1>1 DEF Facts, Geometry, OnTheScreen, Columns
<1>4. Harmless => ~threw'
  BY <1>3, Zenon DEF SetTabStop, Handler
<1> QED
  BY <1>2, <1>4, StaysKeepInv

LEMMA LineControlsKeepInv ==
  ASSUME Inv, Linefeed \/ NextLine \/ CarriageReturn
  PROVE  Inv'
<1>1. Facts /\ mAboutToAutoWrap \in BOOLEAN
  BY InvFacts DEF Inv, TypeOK
<1>2. CASE Linefeed
  <2>1. mCursorCol \in Int /\ (Tame => 0 <= mCursorCol /\ mCursorCol < mColumns)
    BY <1>1 DEF Facts, Geometry, OnTheScreen
  <2> QED
    BY <1>1, <1>2, <2>1, LinefeedKeepsInv DEF Linefeed
<1>3. CASE NextLine
  <2> DEFINE col == IF Origin THEN mLeftMargin ELSE 0
  <2>1. col \in Int /\ (Tame => 0 <= col /\ col < mColumns)
    BY <1>1 DEF Facts, Geometry, MarginsOrdered
  <2>2. DoLinefeed(col, FALSE)
    BY <1>3 DEF NextLine
  <2> QED
    BY <2>1, <2>2, LinefeedKeepsInv
<1>4. CASE CarriageReturn
  <2>1. /\ MovesOnly /\ uses' = uses /\ threw' = FALSE
        /\ mCursorRow' = mCursorRow /\ mCursorCol' = mLeftMargin /\ mAboutToAutoWrap' = FALSE
    BY <1>4 DEF CarriageReturn, Handler, SetCursorCol, CursorTo
  <2>2. /\ mCursorRow' \in Int /\ mCursorCol' \in Int
        /\ Tame => /\ 0 <= mCursorRow' /\ mCursorRow' < mRows
                   /\ 0 <= mCursorCol' /\ mCursorCol' < mColumns
    BY <1>1, <2>1 DEF Facts, Geometry, MarginsOrdered, OnTheScreen
  <2> QED
    BY <2>1, <2>2, MovesKeepInv
<1> QED
  BY <1>2, <1>3, <1>4

-----------------------------------------------------------------------------
(* Escape sequences                                                        *)

LEMMA IndexesKeepInv ==
  ASSUME Inv, BackIndex \/ ForwardIndex \/ ReverseIndex
  PROVE  Inv'
<1>1. Facts /\ mAboutToAutoWrap \in BOOLEAN
  BY InvFacts DEF Inv, TypeOK
<1>2. /\ MovesOnly /\ uses' = uses /\ threw' \in BOOLEAN
      /\ mAboutToAutoWrap' \in BOOLEAN
  BY <1>1 DEF BackIndex, ForwardIndex, ReverseIndex, Handler, CursorTo
<1>3. /\ mCursorRow' \in Int /\ mCursorCol' \in Int
      /\ Tame => /\ 0 <= mCursorRow' /\ mCursorRow' < mRows
                 /\ 0 <= mCursorCol' /\ mCursorCol' < mColumns
  BY <1>1 DEF Facts, Geometry, MarginsOrdered, OnTheScreen, NoMargins,
              BackIndex, ForwardIndex, ReverseIndex, CursorTo
<1>4. ~threw'
  <2> DEFINE rows == mBottomMargin - mTopMargin
  <2>1. /\ BlockCopyLegal(mLeftMargin, mTopMargin, mRightMargin - mLeftMargin - 1,
                          rows, mLeftMargin + 1, mTopMargin)
        /\ BlockSetLegal(mLeftMargin, mTopMargin, 1, rows)
    BY <1>1 DEF Facts, Geometry, MarginsOrdered, BlockCopyLegal, BlockSetLegal
  <2>2. /\ BlockCopyLegal(mLeftMargin + 1, mTopMargin, mRightMargin - mLeftMargin - 1,
                          rows, mLeftMargin, mTopMargin)
        /\ BlockSetLegal(mRightMargin - 1, mTopMargin, 1, rows)
    BY <1>1 DEF Facts, Geometry, MarginsOrdered, BlockCopyLegal, BlockSetLegal
  <2>3. /\ BlockCopyLegal(0, mTopMargin, mColumns, mBottomMargin - (mTopMargin + 1),
                          0, mTopMargin + 1)
        /\ BlockSetLegal(0, mTopMargin, mColumns, 1)
    BY <1>1 DEF Facts, Geometry, MarginsOrdered, BlockCopyLegal, BlockSetLegal
  <2> QED
    BY <2>1, <2>2, <2>3, Zenon DEF BackIndex, ForwardIndex, ReverseIndex, Handler
<1> QED
  BY <1>2, <1>3, <1>4, MovesKeepInv

LEMMA WholeScreenLegal == Geometry => BlockSetLegal(0, 0, mColumns, mRows)
  BY DEF Geometry, BlockSetLegal

LEMMA AlignmentTestKeepsInv ==
  ASSUME Inv, AlignmentTest
  PROVE  Inv'
<1>1. Stays
  BY DEF AlignmentTest, Handler, Stays, cursor
<1>2. BlockSetLegal(0, 0, mColumns, mRows)
  BY InvFacts, WholeScreenLegal DEF Facts
<1>3. ~threw'
  BY <1>2, Zenon DEF AlignmentTest, Handler
<1> QED
  BY <1>1, <1>3, StaysKeepInv

\* setCursorRowCol() puts the cursor on the screen, wherever it is sent.
LEMMA SetCursorRowColOnScreen ==
  ASSUME Geometry, NEW row \in Int, NEW col \in Int, SetCursorRowCol(row, col)
  PROVE  /\ mCursorRow' \in Int /\ mCursorCol' \in Int /\ mAboutToAutoWrap' = FALSE
         /\ 0 <= mCursorRow' /\ mCursorRow' < mRows
         /\ 0 <= mCursorCol' /\ mCursorCol' < mColumns
BY DEF Geometry, SetCursorRowCol, CursorTo, Least, Greatest

LEMMA SetCursorPositionOnScreen ==
  ASSUME Geometry, NEW x \in Int, NEW y \in Int, SetCursorPosition(x, y)
  PROVE  /\ mCursorRow' \in Int /\ mCursorCol' \in Int /\ mAboutToAutoWrap' = FALSE
         /\ 0 <= mCursorRow' /\ mCursorRow' < mRows
         /\ 0 <= mCursorCol' /\ mCursorCol' < mColumns
<1> DEFINE row == Greatest(EffectiveTop, Least(Wrapped(EffectiveTop + y), EffectiveBottom - 1))
           col == Greatest(EffectiveLeft, Least(Wrapped(EffectiveLeft + x), EffectiveRight - 1))
<1>1. /\ EffectiveTop \in Int /\ EffectiveBottom \in Int
      /\ EffectiveLeft \in Int /\ EffectiveRight \in Int
  BY DEF Geometry, EffectiveTop, EffectiveBottom, EffectiveLeft, EffectiveRight
<1>2. row \in Int /\ col \in Int
  BY <1>1 DEF Geometry, Least, Greatest, Wrapped
<1>3. SetCursorRowCol(row, col)
  BY DEF SetCursorPosition
<1> QED
  BY <1>2, <1>3, SetCursorRowColOnScreen

LEMMA LowerLeftKeepsInv ==
  ASSUME Inv, LowerLeft
  PROVE  Inv'
<1>1. Geometry
  BY InvFacts DEF Facts
<1>2. MovesOnly /\ uses' = uses /\ threw' = FALSE /\ SetCursorRowCol(0, mBottomMargin - 1)
  BY DEF LowerLeft, Handler
<1>3. 0 \in Int /\ mBottomMargin - 1 \in Int
  BY <1>1 DEF Geometry
<1>4. /\ mCursorRow' \in Int /\ mCursorCol' \in Int /\ mAboutToAutoWrap' = FALSE
      /\ 0 <= mCursorRow' /\ mCursorRow' < mRows
      /\ 0 <= mCursorCol' /\ mCursorCol' < mColumns
  BY <1>1, <1>2, <1>3, SetCursorRowColOnScreen, Zenon
<1> QED
  BY <1>2, <1>4, MovesKeepInv

LEMMA HereType ==
  ASSUME Inv
  PROVE  Here \in [row : Int, col : Int, origin : BOOLEAN]
<1>1. Origin = TRUE \/ Origin = FALSE
  BY DEF Origin
<1> QED
  BY <1>1 DEF Inv, TypeOK, Here

LEMMA SaveCursorKeepsInv ==
  ASSUME Inv, SaveCursor
  PROVE  Inv'
<1> USE DEF SaveCursor, Handler, cursor, margins
<1>1. Here \in [row : Int, col : Int, origin : BOOLEAN]
  BY HereType
<1>2. saved' \in [Buffer -> [row : Int, col : Int, origin : BOOLEAN]]
  BY <1>1 DEF Inv, TypeOK
<1>3. TypeOK'
  BY <1>2 DEF Inv, TypeOK
<1>4. MarginsOrdered' /\ ActiveBufferFits' /\ NoSideMargins'
  BY DEF Inv, MarginsOrdered, ActiveBufferFits, NoSideMargins
<1>5. CursorBounded' /\ CallsAccepted'
  BY DEF Inv, CursorBounded, OnScreen, CallsAccepted
<1>6. mScreen = "alt" => saved'["main"] = saved["main"]
  BY DEF Inv, TypeOK, Buffer
<1>7. SavedCursorFits'
  BY <1>6 DEF Inv, SavedCursorFits, Tame, OnScreen
<1> QED
  BY <1>3, <1>4, <1>5, <1>7 DEF Inv

\* A handler that sets margins and modes, and perhaps resets the saved cursors.
LEMMA MarginsKeepInv ==
  ASSUME Inv, UNCHANGED <<mRows, mColumns, mScreen, size, uses>>, threw' = FALSE,
         flags' \subseteq {"origin", "leftRight"},
         mTopMargin' \in Nat, mBottomMargin' \in Nat, mLeftMargin' \in Nat, mRightMargin' \in Nat,
         MarginsOrdered', NoSideMargins',
         mCursorRow' \in Int, mCursorCol' \in Int, mAboutToAutoWrap' \in BOOLEAN,
         Tame => 0 <= mCursorRow' /\ mCursorRow' < mRows /\ 0 <= mCursorCol' /\ mCursorCol' < mColumns,
         saved' = saved \/ saved' = [b \in {"main", "alt"} |-> Home]
  PROVE  Inv'
<1>1. saved' \in [Buffer -> [row : Int, col : Int, origin : BOOLEAN]]
  <2>1. Home \in [row : Int, col : Int, origin : BOOLEAN]
    BY DEF Home
  <2> QED
    BY <2>1 DEF Inv, TypeOK, Buffer
<1>2. TypeOK'
  BY <1>1 DEF Inv, TypeOK
<1>3. ActiveBufferFits' /\ CallsAccepted'
  BY DEF Inv, ActiveBufferFits, CallsAccepted
<1>4. CursorBounded'
  BY DEF Tame, CursorBounded, OnScreen
<1>5. OnScreen(0, 0, size["main"])
  <2>1. size["main"] \in Sizes
    BY DEF Inv, TypeOK, Buffer
  <2> QED
    BY <2>1, EmulatorAssumption DEF OnScreen
<1>6. SavedCursorFits'
  <2>1. CASE saved' = saved
    BY <2>1 DEF Inv, SavedCursorFits, Tame, OnScreen
  <2>2. CASE saved' = [b \in {"main", "alt"} |-> Home]
    BY <1>5, <2>2 DEF SavedCursorFits, OnScreen, Home
  <2> QED
    BY <2>1, <2>2
<1> QED
  BY <1>2, <1>3, <1>4, <1>6 DEF Inv

LEMMA RestoreCursorKeepsInv ==
  ASSUME Inv, RestoreCursor
  PROVE  Inv'
<1> DEFINE state == saved[mScreen]
<1>1. Geometry
  BY InvFacts DEF Facts
<1>2. state.row \in Int /\ state.col \in Int
  BY DEF Inv, TypeOK
<1>3. /\ UNCHANGED <<mRows, mColumns, mScreen, size, uses>> /\ threw' = FALSE
      /\ UNCHANGED margins /\ saved' = saved
      /\ SetCursorRowCol(state.row, state.col)
      /\ flags' = WithOrigin(state.origin)
  BY DEF RestoreCursor, Handler, screens
<1>4. flags' \subseteq {"origin", "leftRight"} /\ ("leftRight" \in flags' => "leftRight" \in flags)
  BY <1>3 DEF Inv, TypeOK, WithOrigin
<1>5. /\ mTopMargin' \in Nat /\ mBottomMargin' \in Nat /\ mLeftMargin' \in Nat /\ mRightMargin' \in Nat
      /\ MarginsOrdered' /\ NoSideMargins'
  BY <1>3, <1>4 DEF Inv, TypeOK, MarginsOrdered, NoSideMargins, margins
<1> HIDE DEF state
<1> QED
  BY <1>1, <1>2, <1>3, <1>4, <1>5, SetCursorRowColOnScreen, MarginsKeepInv

\* The margins that span the screen.
LEMMA DefaultMarginsFacts ==
  ASSUME Inv, DefaultMargins, UNCHANGED <<mRows, mColumns, uses>>, "leftRight" \notin flags'
  PROVE  /\ mTopMargin' \in Nat /\ mBottomMargin' \in Nat /\ mLeftMargin' \in Nat /\ mRightMargin' \in Nat
         /\ MarginsOrdered' /\ NoSideMargins'
<1>1. Geometry
  BY InvFacts DEF Facts
<1> QED
  BY <1>1 DEF Geometry, DefaultMargins, MarginsOrdered, NoSideMargins

LEMMA ResetKeepsInv ==
  ASSUME Inv, NEW erase \in BOOLEAN, Reset(erase)
  PROVE  Inv'
<1>1. Facts
  BY InvFacts
<1>2. BlockSetLegal(0, 0, mColumns, mRows)
  BY <1>1, WholeScreenLegal DEF Facts
<1>3. threw' = FALSE
  BY <1>2, Zenon DEF Reset, Handler
<1>4. /\ UNCHANGED <<mRows, mColumns, mScreen, size, uses>> /\ DefaultMargins
      /\ flags' = {} /\ saved' = [b \in {"main", "alt"} |-> Home]
  BY DEF Reset, Handler
<1>5. /\ mCursorRow' \in Int /\ mCursorCol' \in Int /\ mAboutToAutoWrap' \in BOOLEAN
      /\ Tame => /\ 0 <= mCursorRow' /\ mCursorRow' < mRows
                 /\ 0 <= mCursorCol' /\ mCursorCol' < mColumns
  <2>1. CASE SetCursorPosition(0, 0)
    <3>1. 0 \in Int
      OBVIOUS
    <3>2. Geometry
      BY <1>1 DEF Facts
    <3> QED
      BY <2>1, <3>1, <3>2, SetCursorPositionOnScreen, Zenon
  <2>2. CASE CursorTo(mCursorRow, mCursorCol, FALSE)
    BY <1>1, <2>2 DEF Facts, Geometry, OnTheScreen, CursorTo
  <2> QED
    BY <2>1, <2>2 DEF Reset
<1> QED
  BY <1>3, <1>4, <1>5, DefaultMarginsFacts, MarginsKeepInv

LEMMA ColumnModeKeepsInv ==
  ASSUME Inv, ColumnMode
  PROVE  Inv'
<1>1. Facts /\ flags \subseteq {"origin", "leftRight"}
  BY InvFacts DEF Inv, TypeOK
<1>2. BlockSetLegal(0, 0, mColumns, mRows)
  BY <1>1, WholeScreenLegal DEF Facts
<1>3. threw' = FALSE
  BY <1>2, Zenon DEF ColumnMode, Handler
<1>4. /\ UNCHANGED <<mRows, mColumns, mScreen, size, uses>> /\ DefaultMargins
      /\ flags' = flags \ {"leftRight"} /\ saved' = saved
  BY DEF ColumnMode, Handler, screens
<1>5. flags' \subseteq {"origin", "leftRight"} /\ "leftRight" \notin flags'
  BY <1>1, <1>4
<1>6. SetCursorRowCol(0, 0) /\ Geometry /\ 0 \in Int
  BY <1>1 DEF ColumnMode, Facts
<1>7. /\ mCursorRow' \in Int /\ mCursorCol' \in Int /\ mAboutToAutoWrap' = FALSE
      /\ 0 <= mCursorRow' /\ mCursorRow' < mRows
      /\ 0 <= mCursorCol' /\ mCursorCol' < mColumns
  BY <1>6, SetCursorRowColOnScreen, Zenon
<1> QED
  BY <1>3, <1>4, <1>5, <1>7, DefaultMarginsFacts, MarginsKeepInv

LEMMA SetCursorHomeOnScreen ==
  ASSUME Geometry, NEW top \in Int, NEW left \in Int, NEW origin, SetCursorHome(origin, top, left)
  PROVE  /\ mCursorRow' \in Int /\ mCursorCol' \in Int /\ mAboutToAutoWrap' = FALSE
         /\ 0 <= mCursorRow' /\ mCursorRow' < mRows
         /\ 0 <= mCursorCol' /\ mCursorCol' < mColumns
<1> DEFINE row == IF origin THEN top ELSE 0
           col == IF origin THEN left ELSE 0
<1>1. row \in Int /\ col \in Int
  OBVIOUS
<1>2. SetCursorRowCol(row, col)
  BY DEF SetCursorHome
<1> QED
  BY <1>1, <1>2, SetCursorRowColOnScreen

LEMMA OriginModeKeepsInv ==
  ASSUME Inv, NEW setting \in BOOLEAN, OriginMode(setting)
  PROVE  Inv'
<1>1. Facts /\ mAboutToAutoWrap \in BOOLEAN /\ flags \subseteq {"origin", "leftRight"}
  BY InvFacts DEF Inv, TypeOK
<1>2. /\ UNCHANGED <<mRows, mColumns, mScreen, size, uses>> /\ threw' = FALSE
      /\ UNCHANGED margins /\ saved' = saved /\ flags' = WithOrigin(setting)
  BY DEF OriginMode, Handler, screens
<1>3. flags' \subseteq {"origin", "leftRight"} /\ ("leftRight" \in flags' => "leftRight" \in flags)
  BY <1>1, <1>2 DEF WithOrigin
<1>4. /\ mTopMargin' \in Nat /\ mBottomMargin' \in Nat /\ mLeftMargin' \in Nat /\ mRightMargin' \in Nat
      /\ MarginsOrdered' /\ NoSideMargins'
  BY <1>2, <1>3 DEF Inv, TypeOK, MarginsOrdered, NoSideMargins, margins
<1>5. /\ mCursorRow' \in Int /\ mCursorCol' \in Int /\ mAboutToAutoWrap' \in BOOLEAN
      /\ Tame => /\ 0 <= mCursorRow' /\ mCursorRow' < mRows
                 /\ 0 <= mCursorCol' /\ mCursorCol' < mColumns
  <2>1. CASE SetCursorHome(TRUE, mTopMargin, mLeftMargin)
    <3>1. Geometry /\ mTopMargin \in Int /\ mLeftMargin \in Int
      BY <1>1 DEF Facts, Geometry
    <3> QED
      BY <2>1, <3>1, SetCursorHomeOnScreen, Zenon
  <2>2. CASE UNCHANGED cursor
    BY <1>1, <2>2 DEF Facts, Geometry, OnTheScreen, cursor
  <2> QED
    BY <2>1, <2>2 DEF OriginMode
<1> QED
  BY <1>2, <1>3, <1>4, <1>5, MarginsKeepInv

LEMMA LeftRightMarginModeKeepsInv ==
  ASSUME Inv, NEW setting \in BOOLEAN, LeftRightMarginMode(setting)
  PROVE  Inv'
<1>1. Facts /\ mAboutToAutoWrap \in BOOLEAN /\ flags \subseteq {"origin", "leftRight"}
  BY InvFacts DEF Inv, TypeOK
<1>2. /\ UNCHANGED <<mRows, mColumns, mScreen, size, uses>> /\ threw' = FALSE
      /\ UNCHANGED <<mCursorRow, mCursorCol, mAboutToAutoWrap, mTopMargin, mBottomMargin>>
      /\ saved' = saved
  BY DEF LeftRightMarginMode, Handler, screens, cursor
<1>3. /\ flags' \subseteq {"origin", "leftRight"}
      /\ mLeftMargin' \in Nat /\ mRightMargin' \in Nat
      /\ MarginsOrdered' /\ NoSideMargins'
  <2>1. CASE setting
    <3>1. "sideMargins" \in uses /\ flags' = flags \cup {"leftRight"} /\ UNCHANGED <<mLeftMargin, mRightMargin>>
      BY <2>1 DEF LeftRightMarginMode
    <3> QED
      BY <1>1, <1>2, <3>1 DEF Facts, Geometry, MarginsOrdered, NoSideMargins
  <2>2. CASE ~setting
    <3>1. flags' = flags \ {"leftRight"} /\ mLeftMargin' = 0 /\ mRightMargin' = mColumns
      BY <2>2 DEF LeftRightMarginMode
    <3> QED
      BY <1>1, <1>2, <3>1 DEF Facts, Geometry, MarginsOrdered, NoSideMargins
  <2> QED
    BY <2>1, <2>2
<1>4. /\ mTopMargin' \in Nat /\ mBottomMargin' \in Nat
      /\ mCursorRow' \in Int /\ mCursorCol' \in Int /\ mAboutToAutoWrap' \in BOOLEAN
      /\ Tame => /\ 0 <= mCursorRow' /\ mCursorRow' < mRows
                 /\ 0 <= mCursorCol' /\ mCursorCol' < mColumns
  BY <1>1, <1>2 DEF Facts, Geometry, OnTheScreen
<1> QED
  BY <1>2, <1>3, <1>4, MarginsKeepInv

\* Parameters are positive.
LEMMA ArgsType == Inv => \A n \in Args : n \in Nat /\ n >= 1 /\ n <= IntMax
  BY EmulatorAssumption DEF Args

LEMMA SetTopBottomMarginsKeepsInv ==
  ASSUME Inv, NEW n \in Args, NEW m \in Args \cup {mRows}, SetTopBottomMargins(n, m)
  PROVE  Inv'
<1> DEFINE top == Greatest(0, Least(n - 1, mRows - 2))
<1>1. Geometry /\ n \in Nat /\ n >= 1 /\ m \in Nat
  BY InvFacts, ArgsType DEF Facts, Geometry
<1>2. /\ UNCHANGED <<mRows, mColumns, mScreen, size, uses>> /\ threw' = FALSE
      /\ UNCHANGED <<mLeftMargin, mRightMargin, flags>> /\ saved' = saved
      /\ mTopMargin' = top /\ mBottomMargin' = Greatest(top + 2, Least(m, mRows))
      /\ SetCursorHome(Origin, top, mLeftMargin)
  BY DEF SetTopBottomMargins, Handler, screens
<1>3. top \in Nat /\ top \in Int /\ top <= mRows - 2 /\ mLeftMargin \in Int
  BY <1>1 DEF Geometry, Least, Greatest
<1> HIDE DEF top
<1>4. mTopMargin' \in Nat /\ mBottomMargin' \in Nat /\ mLeftMargin' \in Nat /\ mRightMargin' \in Nat
  BY <1>1, <1>2, <1>3 DEF Geometry, Least, Greatest
<1>5. MarginsOrdered'
  BY <1>1, <1>2, <1>3 DEF Geometry, MarginsOrdered, Least, Greatest
<1>6. NoSideMargins' /\ flags' \subseteq {"origin", "leftRight"}
  BY <1>2 DEF Inv, TypeOK, NoSideMargins
<1>7. /\ mCursorRow' \in Int /\ mCursorCol' \in Int /\ mAboutToAutoWrap' = FALSE
      /\ 0 <= mCursorRow' /\ mCursorRow' < mRows
      /\ 0 <= mCursorCol' /\ mCursorCol' < mColumns
  BY <1>1, <1>2, <1>3, SetCursorHomeOnScreen, Zenon
<1> QED
  BY <1>2, <1>4, <1>5, <1>6, <1>7, MarginsKeepInv

LEMMA SetLeftRightMarginsKeepsInv ==
  ASSUME Inv, NEW n \in Args, NEW m \in Args \cup {mColumns}, SetLeftRightMargins(n, m)
  PROVE  Inv'
<1> DEFINE left == Least(n - 1, mColumns - 2)
<1>1. Geometry /\ n \in Nat /\ n >= 1 /\ m \in Nat /\ m >= 1
  BY InvFacts, ArgsType DEF Facts, Geometry
<1>2. /\ UNCHANGED <<mRows, mColumns, mScreen, size, uses>> /\ threw' = FALSE
      /\ UNCHANGED <<mTopMargin, mBottomMargin, flags>> /\ saved' = saved
      /\ mLeftMargin' = left /\ mRightMargin' = Greatest(left + 1, Least(m, mColumns))
      /\ SetCursorHome(Origin, mTopMargin, left)
      /\ "leftRight" \in flags
  BY DEF SetLeftRightMargins, Handler, screens
<1>3. left \in Nat /\ left \in Int /\ left <= mColumns - 2 /\ mTopMargin \in Int
  BY <1>1 DEF Geometry, Least
<1> HIDE DEF left
<1>4. mTopMargin' \in Nat /\ mBottomMargin' \in Nat /\ mLeftMargin' \in Nat /\ mRightMargin' \in Nat
  BY <1>1, <1>2, <1>3 DEF Geometry, Least, Greatest
<1>5. MarginsOrdered'
  BY <1>1, <1>2, <1>3 DEF Geometry, MarginsOrdered, Least, Greatest
<1>6. NoSideMargins' /\ flags' \subseteq {"origin", "leftRight"}
  BY <1>2 DEF Inv, TypeOK, NoSideMargins
<1>7. /\ mCursorRow' \in Int /\ mCursorCol' \in Int /\ mAboutToAutoWrap' = FALSE
      /\ 0 <= mCursorRow' /\ mCursorRow' < mRows
      /\ 0 <= mCursorCol' /\ mCursorCol' < mColumns
  BY <1>1, <1>2, <1>3, SetCursorHomeOnScreen, Zenon
<1> QED
  BY <1>2, <1>4, <1>5, <1>6, <1>7, MarginsKeepInv

-----------------------------------------------------------------------------
(* Control sequences that move the cursor                                  *)

LEMMA ArgsSmall ==
  ASSUME Inv, Tame, NEW n \in Args
  PROVE  n + mRows <= IntMax /\ n + mColumns <= IntMax
<1>1. n \in Params \ Large
  BY DEF Tame, Args
<1>2. <<mColumns, mRows>> \in Sizes
  BY DEF Inv, TypeOK
<1> QED
  BY <1>1, <1>2, EmulatorAssumption

LEMMA RowMovesKeepInv ==
  ASSUME Inv, NEW n \in Args, CursorUp(n) \/ CursorDown(n) \/ RowAbsolute(n)
  PROVE  Inv'
<1> USE DEF CursorUp, CursorDown, RowAbsolute, SetCursorRow, CursorTo
<1>1. Facts /\ n \in Nat /\ n >= 1 /\ n <= IntMax /\ (Tame => n + mRows <= IntMax)
  BY InvFacts, ArgsType, ArgsSmall
<1>2. /\ MovesOnly /\ uses' = uses /\ threw' = FALSE
      /\ mCursorCol' = mCursorCol /\ mAboutToAutoWrap' = FALSE
  BY DEF Moves, Handler
<1>3. mCursorRow' \in Int /\ mCursorCol' \in Int
  BY <1>1 DEF Facts, Geometry, Least, Greatest, Wrapped
<1>4. Tame => /\ 0 <= mCursorRow' /\ mCursorRow' < mRows
              /\ 0 <= mCursorCol' /\ mCursorCol' < mColumns
  BY <1>1 DEF Facts, Geometry, OnTheScreen, Least, Greatest, Wrapped
<1> QED
  BY <1>2, <1>3, <1>4, MovesKeepInv

LEMMA ColumnMovesKeepInv ==
  ASSUME Inv, NEW n \in Args, CursorForward(n) \/ CursorBackward(n) \/ ColumnAbsolute(n)
  PROVE  Inv'
<1> USE DEF CursorForward, CursorBackward, ColumnAbsolute, SetCursorCol, CursorTo
<1>1. Facts /\ n \in Nat /\ n >= 1 /\ n <= IntMax /\ (Tame => n + mColumns <= IntMax)
  BY InvFacts, ArgsType, ArgsSmall
<1>2. /\ MovesOnly /\ uses' = uses /\ threw' = FALSE
      /\ mCursorRow' = mCursorRow /\ mAboutToAutoWrap' = FALSE
  BY DEF Moves, Handler
<1>3. mCursorRow' \in Int /\ mCursorCol' \in Int
  BY <1>1 DEF Facts, Geometry, Least, Greatest, Wrapped
<1>4. Tame => /\ 0 <= mCursorRow' /\ mCursorRow' < mRows
              /\ 0 <= mCursorCol' /\ mCursorCol' < mColumns
  BY <1>1 DEF Facts, Geometry, MarginsOrdered, OnTheScreen, NoMargins, Least, Greatest, Wrapped
<1> QED
  BY <1>2, <1>3, <1>4, MovesKeepInv

LEMMA PositionKeepsInv ==
  ASSUME Inv, Moves, NEW x \in Int, NEW y \in Int, SetCursorPosition(x, y)
  PROVE  Inv'
<1>1. Geometry
  BY InvFacts DEF Facts
<1>2. MovesOnly /\ uses' = uses /\ threw' = FALSE
  BY DEF Moves, Handler
<1> QED
  BY <1>1, <1>2, SetCursorPositionOnScreen, MovesKeepInv

LEMMA PositionMovesKeepInv ==
  ASSUME Inv, NEW n \in Args, NEW m \in Args,
         \/ CursorNextLine(n) \/ CursorPreviousLine(n) \/ CursorPosition(n, m)
         \/ ColumnPosition(n) \/ RowRelative(n)
  PROVE  Inv'
<1>1. /\ 0 \in Int /\ n - 1 \in Int /\ m - 1 \in Int /\ mCursorRow \in Int /\ mCursorCol \in Int
      /\ Wrapped(mCursorRow + n) \in Int /\ Wrapped(mCursorRow - n) \in Int
  BY InvFacts, ArgsType DEF Facts, Geometry, Wrapped
<1>2. \E x, y \in Int : Moves /\ SetCursorPosition(x, y)
  BY <1>1, Zenon DEF CursorNextLine, CursorPreviousLine, CursorPosition, ColumnPosition, RowRelative
<1> QED
  BY <1>2, PositionKeepsInv

-----------------------------------------------------------------------------
(* Control sequences that edit the screen                                  *)

LEMMA CharacterEditsKeepInv ==
  ASSUME Inv, NEW n \in Args,
         InsertCharacters(n) \/ DeleteCharacters(n) \/ EraseCharacters(n) \/ InsertColumns(n)
  PROVE  Inv'
<1>1. Facts /\ n \in Nat /\ n >= 1
  BY InvFacts, ArgsType
<1>2. Stays
  BY DEF InsertCharacters, DeleteCharacters, EraseCharacters, InsertColumns,
         Edits, EditsAndStays, Handler, CursorTo, Stays, cursor
<1>3. SUFFICES ASSUME Harmless
               PROVE  ~threw'
  BY <1>2, StaysKeepInv
<1> DEFINE after == mColumns - mCursorCol
           shifted == Least(n, after)
<1>4. after \in Nat /\ shifted \in Nat /\ shifted <= after
  BY <1>1, <1>3 DEF Facts, Geometry, OnTheScreen, Least
<1> HIDE DEF shifted
<1> USE DEF BlockCopyLegal, BlockSetLegal, Facts, Geometry, OnTheScreen, NoMargins
<1>5. /\ BlockCopyLegal(mCursorCol, mCursorRow, after - shifted, 1, mCursorCol + shifted, mCursorRow)
      /\ BlockCopyLegal(mCursorCol + shifted, mCursorRow, after - shifted, 1, mCursorCol, mCursorRow)
      /\ BlockSetLegal(mCursorCol, mCursorRow, shifted, 1)
      /\ BlockSetLegal(mCursorCol + (after - shifted), mCursorRow, shifted, 1)
  BY <1>1, <1>3, <1>4
<1>6. /\ mRightMargin = mColumns
      /\ BlockCopyLegal(mCursorCol, 0, after - shifted, mRows, mCursorCol + shifted, 0)
      /\ BlockSetLegal(mCursorCol, 0, shifted, mRows)
  BY <1>1, <1>3, <1>4
<1> QED
  BY <1>5, <1>6, Zenon DEF shifted, InsertCharacters, DeleteCharacters, EraseCharacters, InsertColumns,
                           Edits, EditsAndStays, Handler

LEMMA LineEditsKeepInv ==
  ASSUME Inv, NEW n \in Args, InsertLines(n) \/ DeleteLines(n)
  PROVE  Inv'
<1>1. Facts /\ n \in Nat /\ n >= 1
  BY InvFacts, ArgsType
<1>2. Stays
  BY DEF InsertLines, DeleteLines, Edits, EditsAndStays, Handler, CursorTo, Stays, cursor
<1>3. SUFFICES ASSUME Harmless
               PROVE  ~threw'
  BY <1>2, StaysKeepInv
<1> DEFINE after == mBottomMargin - mCursorRow
           shifted == Least(n, after)
<1>4. /\ after \in Int /\ shifted \in Int /\ shifted <= after
      /\ shifted >= 0 \/ shifted = after
  BY <1>1, <1>3 DEF Facts, Geometry, MarginsOrdered, OnTheScreen, Least
<1> HIDE DEF shifted
<1>5. /\ mRows \in Nat /\ mColumns \in Nat /\ size[mScreen][1] = mColumns /\ size[mScreen][2] = mRows
      /\ mCursorRow \in Nat /\ mCursorRow < mRows /\ mBottomMargin \in Nat /\ mBottomMargin <= mRows
  BY <1>1, <1>3 DEF Facts, Geometry, MarginsOrdered, OnTheScreen
<1> USE DEF BlockCopyLegal, BlockSetLegal
<1>6. /\ BlockCopyLegal(0, mCursorRow, mColumns, after - shifted, 0, mCursorRow + shifted)
      /\ BlockSetLegal(0, mCursorRow, mColumns, shifted)
  BY <1>4, <1>5
<1>7. /\ BlockCopyLegal(0, mCursorRow + shifted, mColumns, after - shifted, 0, mCursorRow)
      /\ BlockSetLegal(0, mCursorRow + (after - shifted), mColumns, shifted)
  BY <1>4, <1>5
<1> QED
  BY <1>6, <1>7, Zenon DEF shifted, InsertLines, DeleteLines, Edits, EditsAndStays, Handler

LEMMA ScrollUpKeepsInv ==
  ASSUME Inv, ScrollUp
  PROVE  Inv'
<1>1. Stays
  BY DEF ScrollUp, Edits, Handler, Stays, cursor
<1>2. ScrollDownOneLineLegal
  BY InvFacts, ScrollLegal DEF Facts
<1>3. ~threw'
  BY <1>2, Zenon DEF ScrollUp, Edits, Handler
<1> QED
  BY <1>1, <1>3, StaysKeepInv

LEMMA ScrollDownKeepsInv ==
  ASSUME Inv, NEW n \in Args, ScrollDown(n)
  PROVE  Inv'
<1>1. Facts /\ n \in Nat /\ n >= 1
  BY InvFacts, ArgsType
<1>2. Stays
  BY DEF ScrollDown, Edits, Handler, Stays, cursor
<1> DEFINE between == mBottomMargin - mTopMargin
           lines == Least(between, n)
<1>3. /\ BlockCopyLegal(0, mTopMargin, mColumns, between - lines, 0, mTopMargin + lines)
      /\ BlockSetLegal(0, mTopMargin, mColumns, lines)
  BY <1>1 DEF Facts, Geometry, MarginsOrdered, Least, BlockCopyLegal, BlockSetLegal
<1>4. ~threw'
  BY <1>3, Zenon DEF ScrollDown, Edits, Handler
<1> QED
  BY <1>2, <1>4, StaysKeepInv

LEMMA ErasesKeepInv ==
  ASSUME Inv, NEW n \in 0..3, EraseInDisplay(n) \/ EraseInLine(n)
  PROVE  Inv'
<1>1. Facts
  BY InvFacts
<1>2. Stays
  BY DEF EraseInDisplay, EraseInLine, EditsAndStays, Handler, CursorTo, Stays
<1>3. SUFFICES ASSUME Harmless
               PROVE  ~threw'
  BY <1>2, StaysKeepInv
<1>4. /\ BlockSetLegal(mCursorCol, mCursorRow, mColumns - mCursorCol, 1)
      /\ BlockSetLegal(0, mCursorRow + 1, mColumns, mRows - (mCursorRow + 1))
      /\ BlockSetLegal(0, 0, mColumns, mCursorRow)
      /\ BlockSetLegal(0, mCursorRow, mCursorCol + 1, 1)
      /\ BlockSetLegal(0, 0, mColumns, mRows)
      /\ BlockSetLegal(0, mCursorRow, mColumns, 1)
  BY <1>1, <1>3 DEF Facts, Geometry, OnTheScreen, BlockSetLegal
<1> QED
  BY <1>4, Zenon DEF EraseInDisplay, EraseInLine, EditsAndStays, Handler

LEMMA SelectiveEraseKeepsInv ==
  ASSUME Inv, NEW n \in 0..2, NEW justRow \in BOOLEAN, SelectiveErase(n, justRow)
  PROVE  Inv'
<1>1. Facts
  BY InvFacts
<1>2. Stays
  BY DEF SelectiveErase, EditsAndStays, Handler, CursorTo, Stays
<1>3. SUFFICES ASSUME Harmless
               PROVE  ~threw'
  BY <1>2, StaysKeepInv
<1>4. SetCharsLegal(IF n = 0 THEN mCursorCol ELSE 0,
                    IF justRow \/ n = 0 THEN mCursorRow ELSE 0,
                    IF n = 1 THEN mCursorCol + 1 ELSE mColumns,
                    IF justRow \/ n = 1 THEN mCursorRow + 1 ELSE mRows)
  BY <1>1, <1>3 DEF Facts, Geometry, OnTheScreen, SetCharsLegal, SetCharLegal
<1> QED
  BY <1>4, Zenon DEF SelectiveErase, EditsAndStays, Handler

LEMMA DeleteColumnsKeepsInv ==
  ASSUME Inv, NEW n \in Args, DeleteColumns(n)
  PROVE  Inv'
<1>1. Stays /\ "deleteColumns" \in uses
  BY DEF DeleteColumns, Edits, Handler, Stays, cursor
<1>2. ~Harmless
  BY <1>1 DEF Harmless, Hazards
<1> QED
  BY <1>1, <1>2, StaysKeepInv

\* The edges that origin mode chooses.
LEMMA EffectiveMargins ==
  ASSUME Geometry
  PROVE  /\ EffectiveTop \in Nat /\ EffectiveBottom \in Nat
         /\ EffectiveLeft \in Nat /\ EffectiveRight \in Nat
         /\ EffectiveTop + 2 <= EffectiveBottom /\ EffectiveBottom <= mRows
         /\ EffectiveLeft < EffectiveRight /\ EffectiveRight <= mColumns
BY DEF Geometry, MarginsOrdered, EffectiveTop, EffectiveBottom, EffectiveLeft, EffectiveRight

\* Tame parameters of a rectangle are added to the edges without overflow.
LEMMA RectangleArgs ==
  ASSUME Inv, Geometry, Tame, NEW p \in Rectangles, \A i \in 1..6 : p[i] \in Args
  PROVE  /\ EffectiveTop \in Nat /\ EffectiveLeft \in Nat /\ mRows \in Nat /\ mColumns \in Nat
         /\ \A i \in 1..6 : /\ p[i] \in Nat /\ p[i] >= 1
                            /\ Wrapped(p[i] - 1 + EffectiveTop) = p[i] - 1 + EffectiveTop
                            /\ Wrapped(p[i] - 1 + EffectiveLeft) = p[i] - 1 + EffectiveLeft
                            /\ Wrapped(p[i] + EffectiveTop) = p[i] + EffectiveTop
                            /\ Wrapped(p[i] + EffectiveLeft) = p[i] + EffectiveLeft
<1>1. /\ EffectiveTop \in Nat /\ EffectiveTop <= mRows /\ mRows \in Nat
      /\ EffectiveLeft \in Nat /\ EffectiveLeft <= mColumns /\ mColumns \in Nat /\ IntMax \in Nat
  BY EffectiveMargins DEF Geometry
<1>2. \A i \in 1..6 : /\ p[i] \in Nat /\ p[i] >= 1
                      /\ p[i] + mRows <= IntMax /\ p[i] + mColumns <= IntMax
  BY ArgsType, ArgsSmall
<1> QED
  BY <1>1, <1>2 DEF Wrapped

LEMMA CopyRectangleKeepsInv ==
  ASSUME Inv, NEW p \in Rectangles, \A i \in 1..6 : p[i] \in Args, CopyRectangle(p)
  PROVE  Inv'
<1>1. Stays
  BY DEF CopyRectangle, Edits, Handler, Stays, cursor
<1>2. SUFFICES ASSUME Harmless
               PROVE  ~threw'
  BY <1>1, StaysKeepInv
<1>3. Facts /\ Tame
  BY <1>2, InvFacts DEF Facts
<1>4. /\ EffectiveTop \in Nat /\ EffectiveLeft \in Nat /\ mRows \in Nat /\ mColumns \in Nat
      /\ \A i \in 1..6 : /\ p[i] \in Nat /\ p[i] >= 1
                         /\ Wrapped(p[i] - 1 + EffectiveTop) = p[i] - 1 + EffectiveTop
                         /\ Wrapped(p[i] - 1 + EffectiveLeft) = p[i] - 1 + EffectiveLeft
                         /\ Wrapped(p[i] + EffectiveTop) = p[i] + EffectiveTop
                         /\ Wrapped(p[i] + EffectiveLeft) = p[i] + EffectiveLeft
  BY <1>3, RectangleArgs DEF Facts
<1> DEFINE topSource == Least(Wrapped(p[1] - 1 + EffectiveTop), mRows)
           leftSource == Least(Wrapped(p[2] - 1 + EffectiveLeft), mColumns)
           bottomSource == Least(Greatest(Wrapped(p[3] + EffectiveTop), topSource), mRows)
           rightSource == Least(Greatest(Wrapped(p[4] + EffectiveLeft), leftSource), mColumns)
           destinationTop == Least(Wrapped(p[5] - 1 + EffectiveTop), mRows)
           destinationLeft == Least(Wrapped(p[6] - 1 + EffectiveLeft), mColumns)
<1>5. /\ topSource \in Nat /\ topSource <= mRows
      /\ leftSource \in Nat /\ leftSource <= mColumns
      /\ destinationTop \in Nat /\ destinationTop <= mRows
      /\ destinationLeft \in Nat /\ destinationLeft <= mColumns
  BY <1>4 DEF Least
<1> HIDE DEF topSource, leftSource, destinationTop, destinationLeft
<1>6. /\ bottomSource \in Nat /\ topSource <= bottomSource /\ bottomSource <= mRows
      /\ rightSource \in Nat /\ leftSource <= rightSource /\ rightSource <= mColumns
  <2>1. Wrapped(p[3] + EffectiveTop) \in Nat /\ Wrapped(p[4] + EffectiveLeft) \in Nat
    BY <1>4
  <2>2. bottomSource \in Nat /\ topSource <= bottomSource /\ bottomSource <= mRows
    BY <1>4, <1>5, <2>1 DEF Least, Greatest
  <2>3. rightSource \in Nat /\ leftSource <= rightSource /\ rightSource <= mColumns
    BY <1>4, <1>5, <2>1 DEF Least, Greatest
  <2> QED
    BY <2>2, <2>3
<1> HIDE DEF bottomSource, rightSource
<1>7. BlockCopyLegal(leftSource, topSource,
                     Least(mColumns - destinationLeft, rightSource - leftSource),
                     Least(mRows - destinationTop, bottomSource - topSource),
                     destinationLeft, destinationTop)
  BY <1>3, <1>5, <1>6 DEF Facts, Geometry, Least, BlockCopyLegal, BlockSetLegal
<1> QED
  BY <1>7, Zenon DEF CopyRectangle, Edits, Handler,
                     topSource, leftSource, bottomSource, rightSource, destinationTop, destinationLeft

LEMMA FillRectangleKeepsInv ==
  ASSUME Inv, NEW p \in Rectangles, \A i \in 1..6 : p[i] \in Args, FillRectangle(p)
  PROVE  Inv'
<1>1. Stays
  BY DEF FillRectangle, Edits, Handler, Stays, cursor
<1>2. SUFFICES ASSUME Harmless
               PROVE  ~threw'
  BY <1>1, StaysKeepInv
<1>3. Facts /\ Tame
  BY <1>2, InvFacts DEF Facts
<1>4. \A i \in 1..6 : /\ p[i] \in Nat /\ p[i] >= 1
                      /\ Wrapped(p[i] + EffectiveTop) = p[i] + EffectiveTop
                      /\ Wrapped(p[i] + EffectiveLeft) = p[i] + EffectiveLeft
  BY <1>3, RectangleArgs DEF Facts
<1> DEFINE left == Least(Wrapped(p[2] + EffectiveLeft), EffectiveRight + 1) - 1
           top == Least(Wrapped(p[1] + EffectiveTop), EffectiveBottom + 1) - 1
           right == Least(Wrapped(p[4] + EffectiveLeft), EffectiveRight)
           bottom == Least(Wrapped(p[3] + EffectiveTop), EffectiveBottom)
<1>5. /\ left \in Nat /\ top \in Nat
      /\ right \in Nat /\ right <= mColumns /\ bottom \in Nat /\ bottom <= mRows
  <2>1. /\ Wrapped(p[1] + EffectiveTop) \in Nat \ {0} /\ Wrapped(p[2] + EffectiveLeft) \in Nat \ {0}
        /\ Wrapped(p[3] + EffectiveTop) \in Nat /\ Wrapped(p[4] + EffectiveLeft) \in Nat
    BY <1>3, <1>4, EffectiveMargins DEF Facts
  <2>2. /\ EffectiveBottom \in Nat /\ EffectiveBottom <= mRows /\ mRows \in Nat
        /\ EffectiveRight \in Nat /\ EffectiveRight <= mColumns /\ mColumns \in Nat
    BY <1>3, EffectiveMargins DEF Facts, Geometry
  <2>3. left \in Nat /\ top \in Nat
    BY <2>1, <2>2 DEF Least
  <2>4. right \in Nat /\ right <= mColumns /\ bottom \in Nat /\ bottom <= mRows
    BY <2>1, <2>2 DEF Least
  <2> QED
    BY <2>3, <2>4
<1> HIDE DEF left, top, right, bottom
<1>6. SetCharsLegal(left, top, right, bottom)
  BY <1>3, <1>5 DEF Facts, Geometry, SetCharsLegal, SetCharLegal
<1> QED
  BY <1>6, Zenon DEF FillRectangle, Edits, Handler, left, top, right, bottom

LEMMA ChangeAttributesKeepsInv ==
  ASSUME Inv, NEW p \in Rectangles, \A i \in 1..6 : p[i] \in Args,
         NEW rectangular \in BOOLEAN, NEW missing \in BOOLEAN,
         ChangeAttributes(p, rectangular, missing)
  PROVE  Inv'
<1>1. Stays /\ (Origin => "rectangleAttributes" \in uses)
  BY DEF ChangeAttributes, Edits, Handler, Stays, cursor
<1>2. SUFFICES ASSUME Harmless
               PROVE  ~threw'
  BY <1>1, StaysKeepInv
<1>3. Facts /\ Tame /\ ~Origin
  BY <1>1, <1>2, InvFacts DEF Facts, Harmless, Hazards
<1>4. EffectiveTop = 0 /\ EffectiveBottom = mRows /\ EffectiveLeft = 0 /\ EffectiveRight = mColumns
  BY <1>3 DEF EffectiveTop, EffectiveBottom, EffectiveLeft, EffectiveRight
<1>5. \A i \in 1..6 : /\ p[i] \in Nat /\ p[i] >= 1
                      /\ p[i] + mRows <= IntMax /\ p[i] + mColumns <= IntMax
  BY <1>3, ArgsType, ArgsSmall
<1> DEFINE bottom == Least(Wrapped(p[3] + 1), EffectiveBottom - 1) + EffectiveTop
           right == Least(Wrapped(p[4] + 1), EffectiveRight - 1) + EffectiveLeft
<1>6. bottom - 1 <= mRows /\ bottom - 1 # mRows /\ right <= mColumns
  <2>1. Wrapped(p[3] + 1) \in Nat /\ Wrapped(p[4] + 1) \in Nat /\ mRows \in Nat /\ mColumns \in Nat
    BY <1>3, <1>5 DEF Facts, Geometry, Wrapped
  <2> QED
    BY <1>4, <2>1 DEF Least
<1> QED
  BY <1>6, Zenon DEF ChangeAttributes, Edits, Handler

-----------------------------------------------------------------------------
(* The alternate screen and the size                                       *)

\* A cursor that was on its screen is on the new one.
LEMMA ResizeScreenOnScreen ==
  ASSUME IntMax \in Nat,
         NEW row \in Int, NEW col \in Int, NEW ownRows \in Nat, NEW newRows \in Nat, NEW newColumns \in Nat,
         NEW pending \in BOOLEAN, ResizeScreen(row, col, ownRows, newRows, newColumns, pending)
  PROVE  /\ mCursorRow' \in Int /\ mCursorCol' \in Int /\ mAboutToAutoWrap' \in BOOLEAN
         /\ row < ownRows \/ row < newRows =>
              /\ 0 <= mCursorRow' /\ mCursorRow' < newRows
              /\ 0 <= mCursorCol' /\ mCursorCol' < newColumns
<1>1. CASE \E y \in 0..newRows - 1, x \in 0..newColumns - 1 : CursorTo(y, x, pending)
  BY <1>1 DEF CursorTo
<1>2. ASSUME row >= Greatest(ownRows, newRows),
             NEW shift \in IF ownRows > newRows THEN {ownRows - newRows} ELSE ownRows - newRows .. 0,
             CursorTo(Wrapped(row - shift), col, pending)
      PROVE  /\ mCursorRow' \in Int /\ mCursorCol' \in Int /\ mAboutToAutoWrap' \in BOOLEAN
             /\ ~(row < ownRows \/ row < newRows)
  BY <1>2 DEF CursorTo, Greatest, Wrapped
<1> QED
  BY <1>1, <1>2 DEF ResizeScreen

LEMMA EnterKeepsInv ==
  ASSUME Inv, EnterAlternateScreen
  PROVE  Inv'
<1>1. /\ Facts /\ mAboutToAutoWrap \in BOOLEAN /\ TypeOK
      /\ size \in [Buffer -> Sizes] /\ <<mColumns, mRows>> \in Sizes
  BY InvFacts DEF Inv, TypeOK
<1>2. /\ mScreen = "main" /\ mScreen' = "alt" /\ threw' = FALSE
      /\ UNCHANGED <<mTopMargin, mBottomMargin, mLeftMargin, mRightMargin, flags, mRows, mColumns, uses>>
      /\ saved' = [saved EXCEPT !["main"] = Here]
      /\ size' = IF NeedsResize("alt") THEN [size EXCEPT !["alt"] = <<mColumns, mRows>>] ELSE size
  BY DEF EnterAlternateScreen, Handler, margins
<1>3. saved' \in [Buffer -> [row : Int, col : Int, origin : BOOLEAN]] /\ saved'["main"] = Here
  BY <1>1, <1>2, HereType DEF TypeOK, Buffer
<1>4. /\ size' \in [Buffer -> Sizes] /\ size'["alt"] = <<mColumns, mRows>>
      /\ size'["main"] = size["main"]
  BY <1>1, <1>2 DEF Buffer, NeedsResize
<1>5. /\ mCursorRow' \in Int /\ mCursorCol' \in Int /\ mAboutToAutoWrap' \in BOOLEAN
      /\ Tame => /\ 0 <= mCursorRow' /\ mCursorRow' < mRows
                 /\ 0 <= mCursorCol' /\ mCursorCol' < mColumns
  <2>1. CASE ResizeScreen(mCursorRow, mCursorCol, size["alt"][2], mRows, mColumns, mAboutToAutoWrap)
    <3>1. size["alt"][2] \in Nat /\ mRows \in Nat /\ mColumns \in Nat /\ IntMax \in Nat
      BY <1>1, EmulatorAssumption DEF Buffer, Facts, Geometry
    <3>2. /\ mCursorRow \in Int /\ mCursorCol \in Int
          /\ Tame => mCursorRow < mRows
      BY <1>1 DEF Facts, Geometry, OnTheScreen
    <3>3. PICK own \in Nat : own = size["alt"][2]
      BY <3>1
    <3>4. ResizeScreen(mCursorRow, mCursorCol, own, mRows, mColumns, mAboutToAutoWrap)
      BY <2>1, <3>3
    <3> QED
      BY <1>1, <3>1, <3>2, <3>4, ResizeScreenOnScreen
  <2>2. CASE UNCHANGED cursor
    BY <1>1, <2>2 DEF Facts, Geometry, OnTheScreen, cursor
  <2> QED
    BY <2>1, <2>2 DEF EnterAlternateScreen
<1>6. TypeOK'
  BY <1>1, <1>2, <1>3, <1>4, <1>5 DEF TypeOK, Buffer
<1>7. MarginsOrdered' /\ NoSideMargins' /\ CallsAccepted'
  BY <1>2 DEF Inv, MarginsOrdered, NoSideMargins, CallsAccepted
<1>8. ActiveBufferFits' /\ CursorBounded'
  BY <1>2, <1>4, <1>5 DEF ActiveBufferFits, CursorBounded, Tame, OnScreen
<1>9. SavedCursorFits'
  BY <1>1, <1>2, <1>3, <1>4 DEF SavedCursorFits, Facts, Geometry, OnTheScreen, Tame, OnScreen, Here
<1> QED
  BY <1>6, <1>7, <1>8, <1>9 DEF Inv

LEMMA LeaveKeepsInv ==
  ASSUME Inv, LeaveAlternateScreen
  PROVE  Inv'
<1> DEFINE row == saved["main"].row
           col == saved["main"].col
<1>1. /\ Facts /\ TypeOK /\ row \in Int /\ col \in Int /\ flags \subseteq {"origin", "leftRight"}
      /\ size \in [Buffer -> Sizes] /\ <<mColumns, mRows>> \in Sizes
  BY InvFacts DEF Inv, TypeOK, Buffer
<1>2. /\ mScreen = "alt" /\ mScreen' = "main" /\ threw' = FALSE
      /\ UNCHANGED <<mTopMargin, mBottomMargin, mLeftMargin, mRightMargin, mRows, mColumns, uses, saved>>
      /\ flags' = WithOrigin(saved["main"].origin)
      /\ size' = IF NeedsResize("main") THEN [size EXCEPT !["main"] = <<mColumns, mRows>>] ELSE size
  BY DEF LeaveAlternateScreen, Handler, margins
<1>3. flags' \subseteq {"origin", "leftRight"} /\ ("leftRight" \in flags' => "leftRight" \in flags)
  BY <1>1, <1>2 DEF WithOrigin
<1>4. size' \in [Buffer -> Sizes] /\ size'["main"] = <<mColumns, mRows>>
  BY <1>1, <1>2 DEF Buffer, NeedsResize
<1>5. /\ mCursorRow' \in Int /\ mCursorCol' \in Int /\ mAboutToAutoWrap' \in BOOLEAN
      /\ Tame => /\ 0 <= mCursorRow' /\ mCursorRow' < mRows
                 /\ 0 <= mCursorCol' /\ mCursorCol' < mColumns
  <2>1. CASE ResizeScreen(row, col, size["main"][2], mRows, mColumns, FALSE)
    <3>1. size["main"][2] \in Nat /\ mRows \in Nat /\ mColumns \in Nat /\ IntMax \in Nat
      BY <1>1, EmulatorAssumption DEF Buffer, Facts, Geometry
    <3>2. Tame => row < size["main"][2]
      BY <1>2 DEF Inv, SavedCursorFits, OnScreen
    <3>3. PICK own \in Nat, r \in Int, c \in Int, pending \in BOOLEAN :
            own = size["main"][2] /\ r = row /\ c = col /\ pending = FALSE
      BY <1>1, <3>1
    <3>4. ResizeScreen(r, c, own, mRows, mColumns, pending) /\ (Tame => r < own)
      BY <2>1, <3>2, <3>3
    <3> QED
      BY <3>1, <3>4, ResizeScreenOnScreen
  <2>2. CASE SetCursorRowCol(row, col)
    <3> HIDE DEF row, col
    <3> QED
      BY <1>1, <2>2, SetCursorRowColOnScreen DEF Facts
  <2> QED
    BY <2>1, <2>2 DEF LeaveAlternateScreen
<1>6. TypeOK'
  BY <1>1, <1>2, <1>3, <1>4, <1>5 DEF TypeOK, Buffer
<1>7. MarginsOrdered' /\ NoSideMargins' /\ CallsAccepted'
  BY <1>2, <1>3 DEF Inv, MarginsOrdered, NoSideMargins, CallsAccepted
<1>8. ActiveBufferFits' /\ CursorBounded'
  BY <1>2, <1>4, <1>5 DEF ActiveBufferFits, CursorBounded, Tame, OnScreen
<1>9. SavedCursorFits'
  BY <1>2 DEF SavedCursorFits
<1> QED
  BY <1>6, <1>7, <1>8, <1>9 DEF Inv

LEMMA ResizeKeepsInv ==
  ASSUME Inv, NEW s \in Sizes, Resize(s)
  PROVE  Inv'
<1>1. /\ Facts /\ TypeOK /\ mAboutToAutoWrap \in BOOLEAN
      /\ size \in [Buffer -> Sizes] /\ mScreen \in Buffer
  BY InvFacts DEF Inv, TypeOK
<1>2. /\ s = <<s[1], s[2]>> /\ s[1] \in Nat /\ s[2] \in Nat /\ s[1] >= 2 /\ s[2] >= 2
      /\ IntMax \in Nat
  BY EmulatorAssumption
<1>3. /\ UNCHANGED <<flags, mScreen, saved, uses>> /\ threw' = FALSE
      /\ mColumns' = s[1] /\ mRows' = s[2] /\ ResetMargins(s)
      /\ size' = [size EXCEPT ![mScreen] = s]
      /\ ResizeScreen(mCursorRow, mCursorCol, mRows, s[2], s[1], mAboutToAutoWrap)
  BY DEF Resize, Handler
<1>4. /\ mTopMargin' \in Nat /\ mBottomMargin' \in Nat /\ mLeftMargin' \in Nat /\ mRightMargin' \in Nat
      /\ MarginsOrdered'
  BY <1>1, <1>2, <1>3 DEF Facts, Geometry, MarginsOrdered, ResetMargins
<1>5. size' \in [Buffer -> Sizes] /\ size'[mScreen] = s /\ (mScreen = "alt" => size'["main"] = size["main"])
  BY <1>1, <1>3 DEF Buffer
<1>6. /\ mCursorRow' \in Int /\ mCursorCol' \in Int /\ mAboutToAutoWrap' \in BOOLEAN
      /\ Tame => /\ 0 <= mCursorRow' /\ mCursorRow' < s[2]
                 /\ 0 <= mCursorCol' /\ mCursorCol' < s[1]
  <2>1. /\ mCursorRow \in Int /\ mCursorCol \in Int /\ mRows \in Nat
        /\ Tame => mCursorRow < mRows
    BY <1>1 DEF Facts, Geometry, OnTheScreen
  <2> QED
    BY <1>1, <1>2, <1>3, <2>1, ResizeScreenOnScreen
<1>7. TypeOK'
  BY <1>1, <1>2, <1>3, <1>4, <1>5, <1>6 DEF TypeOK
<1>8. NoSideMargins' /\ CallsAccepted'
  BY <1>3 DEF Inv, NoSideMargins, CallsAccepted, ResetMargins
<1>9. ActiveBufferFits' /\ CursorBounded'
  BY <1>2, <1>3, <1>5, <1>6 DEF ActiveBufferFits, CursorBounded, Tame, OnScreen
<1>10. SavedCursorFits'
  BY <1>3, <1>5 DEF Inv, SavedCursorFits, Tame, OnScreen
<1> QED
  BY <1>4, <1>7, <1>8, <1>9, <1>10 DEF Inv

-----------------------------------------------------------------------------
(* The invariant                                                           *)

LEMMA InitInv ==
  ASSUME Init
  PROVE  Inv
<1>1. PICK s \in Sizes :
        /\ mColumns = s[1] /\ mRows = s[2]
        /\ mCursorRow = 0 /\ mCursorCol = 0 /\ mAboutToAutoWrap = FALSE
        /\ mTopMargin = 0 /\ mBottomMargin = s[2] /\ mLeftMargin = 0 /\ mRightMargin = s[1]
        /\ flags = {} /\ mScreen = "main"
        /\ size = [b \in {"main", "alt"} |-> s]
        /\ saved = [b \in {"main", "alt"} |-> Home]
        /\ threw = FALSE /\ uses \in Programs
  BY DEF Init
<1>2. s = <<s[1], s[2]>> /\ s[1] \in Nat /\ s[2] \in Nat /\ s[1] >= 2 /\ s[2] >= 2
  BY EmulatorAssumption
<1>3. Home \in [row : Int, col : Int, origin : BOOLEAN]
  BY DEF Home
<1>4. TypeOK
  <2>1. size \in [Buffer -> Sizes] /\ mScreen \in Buffer
    BY <1>1 DEF Buffer
  <2>2. saved \in [Buffer -> [row : Int, col : Int, origin : BOOLEAN]]
    BY <1>1, <1>3 DEF Buffer
  <2>3. <<mColumns, mRows>> \in Sizes
    BY <1>1, <1>2
  <2>4. /\ mRows \in Nat /\ mColumns \in Nat /\ mCursorRow \in Int /\ mCursorCol \in Int
        /\ mTopMargin \in Nat /\ mBottomMargin \in Nat /\ mLeftMargin \in Nat /\ mRightMargin \in Nat
    BY <1>1, <1>2
  <2>5. mAboutToAutoWrap \in BOOLEAN /\ threw \in BOOLEAN /\ flags \subseteq {"origin", "leftRight"}
    BY <1>1
  <2> QED
    BY <1>1, <2>1, <2>2, <2>3, <2>4, <2>5 DEF TypeOK
<1>5. MarginsOrdered /\ NoSideMargins
  BY <1>1, <1>2 DEF MarginsOrdered, NoSideMargins
<1>6. ActiveBufferFits /\ CursorBounded
  BY <1>1, <1>2 DEF ActiveBufferFits, CursorBounded, OnScreen
<1>7. SavedCursorFits /\ CallsAccepted
  BY <1>1 DEF SavedCursorFits, CallsAccepted
<1> QED
  BY <1>4, <1>5, <1>6, <1>7 DEF Inv

LEMMA ControlKeepsInv ==
  ASSUME Inv, Control
  PROVE  Inv'
BY BackspaceKeepsInv, TabKeepsInv, BackTabKeepsInv, SetTabStopKeepsInv, LineControlsKeepInv,
   IndexesKeepInv, LowerLeftKeepsInv, AlignmentTestKeepsInv, SaveCursorKeepsInv,
   RestoreCursorKeepsInv, ResetKeepsInv, Zenon
   DEF Control

LEMMA MoveKeepsInv ==
  ASSUME Inv, Move
  PROVE  Inv'
BY RowMovesKeepInv, ColumnMovesKeepInv, PositionMovesKeepInv,
   SetTopBottomMarginsKeepsInv, SetLeftRightMarginsKeepsInv, Zenon
   DEF Move

LEMMA EditKeepsInv ==
  ASSUME Inv, Edit
  PROVE  Inv'
<1>1. \A n : n \in 0..2 => n \in 0..3
  OBVIOUS
<1> QED
  BY <1>1, CharacterEditsKeepInv, LineEditsKeepInv, ScrollUpKeepsInv, ScrollDownKeepsInv,
     ErasesKeepInv, SelectiveEraseKeepsInv, DeleteColumnsKeepsInv,
     CopyRectangleKeepsInv, FillRectangleKeepsInv, ChangeAttributesKeepsInv, Zenon
     DEF Edit

LEMMA ModeKeepsInv ==
  ASSUME Inv, Mode
  PROVE  Inv'
BY ColumnModeKeepsInv, OriginModeKeepsInv, LeftRightMarginModeKeepsInv,
   EnterKeepsInv, LeaveKeepsInv, ResizeKeepsInv, Zenon
   DEF Mode

LEMMA StutterKeepsInv ==
  ASSUME Inv, UNCHANGED vars
  PROVE  Inv'
<1> USE DEF vars, cursor, margins, screens
<1>1. TypeOK'
  BY DEF Inv, TypeOK
<1>2. MarginsOrdered' /\ ActiveBufferFits' /\ NoSideMargins'
  BY DEF Inv, MarginsOrdered, ActiveBufferFits, NoSideMargins
<1>3. CursorBounded' /\ SavedCursorFits' /\ CallsAccepted'
  BY DEF Inv, CursorBounded, SavedCursorFits, Tame, OnScreen, CallsAccepted
<1> QED
  BY <1>1, <1>2, <1>3 DEF Inv

THEOREM InvHolds == Spec => []Inv
<1>1. Init => Inv
  BY InitInv
<1>2. Inv /\ [Next]_vars => Inv'
  BY EmitCodePointKeepsInv, ControlKeepsInv, MoveKeepsInv, EditKeepsInv, ModeKeepsInv,
     StutterKeepsInv, Zenon
     DEF Next
<1> QED
  BY <1>1, <1>2, PTL DEF Spec

\* The scrolling margins are in their documented ranges, whatever parameters
\* sequences have and however the screen is resized.
THEOREM MarginsAreOrdered == Spec => []MarginsOrdered
<1>1. Inv => MarginsOrdered
  BY DEF Inv
<1> QED
  BY <1>1, InvHolds, PTL

\* The buffer that is written to has the size the emulator believes.
THEOREM ActiveBufferAlwaysFits == Spec => []ActiveBufferFits
<1>1. Inv => ActiveBufferFits
  BY DEF Inv
<1> QED
  BY <1>1, InvHolds, PTL

\* Without side margins and without parameters large enough to overflow the
\* cursor stays on the screen.
THEOREM CursorStaysOnScreen == Spec => []CursorBounded
<1>1. Inv => CursorBounded
  BY DEF Inv
<1> QED
  BY <1>1, InvHolds, PTL

\* Outside the four hazards TerminalBuffer refuses no call of the emulator.
THEOREM CallsAreAccepted == Spec => []CallsAccepted
<1>1. Inv => CallsAccepted
  BY DEF Inv
<1> QED
  BY <1>1, InvHolds, PTL

LEMMA EnterSavesCursor ==
  ASSUME Inv, EnterAlternateScreen
  PROVE  KeepsMainCursor
<1>1. mScreen = "main" /\ mScreen' = "alt" /\ saved' = [saved EXCEPT !["main"] = Here]
  BY DEF EnterAlternateScreen
<1>2. saved'["main"] = Here
  BY <1>1 DEF Inv, TypeOK, Buffer
<1> QED
  BY <1>1, <1>2 DEF KeepsMainCursor

LEMMA LeaveRestoresCursor ==
  ASSUME Inv, LeaveAlternateScreen
  PROVE  KeepsMainCursor
<1>1. mScreen = "alt" /\ mScreen' = "main" /\ saved' = saved
  BY DEF LeaveAlternateScreen
<1>2. ASSUME Tame, size["main"] = <<mColumns, mRows>>
      PROVE  mCursorRow' = saved["main"].row /\ mCursorCol' = saved["main"].col
  <2>1. SetCursorRowCol(saved["main"].row, saved["main"].col)
    BY <1>2 DEF LeaveAlternateScreen, NeedsResize
  <2>2. OnScreen(saved["main"].row, saved["main"].col, <<mColumns, mRows>>)
    BY <1>1, <1>2 DEF Inv, SavedCursorFits
  <2>3. /\ saved["main"].row \in Int /\ saved["main"].col \in Int
        /\ mRows \in Nat /\ mColumns \in Nat
    BY DEF Inv, TypeOK, Buffer
  <2> QED
    BY <2>1, <2>2, <2>3 DEF SetCursorRowCol, CursorTo, OnScreen, Least, Greatest
<1> QED
  BY <1>1, <1>2 DEF KeepsMainCursor, Tame

\* Every other handler stays on its screen, and only a reset touches the saved
\* cursor of the main screen from the alternate one.
OtherScreenUntouched ==
  /\ mScreen' = mScreen
  /\ mScreen = "alt" => saved'["main"] = saved["main"] \/ saved'["main"] = Home

LEMMA OthersKeepCursor ==
  ASSUME Inv, [Next]_vars, ~EnterAlternateScreen, ~LeaveAlternateScreen
  PROVE  KeepsMainCursor
<1>1. MovesOnly \/ UNCHANGED screens => OtherScreenUntouched
  BY DEF MovesOnly, screens, OtherScreenUntouched
<1>2. ASSUME NEW width \in 0..2, NEW autoWrap \in BOOLEAN, NEW insert \in BOOLEAN,
             EmitCodePoint(width, autoWrap, insert)
      PROVE  OtherScreenUntouched
  BY <1>1, <1>2 DEF EmitCodePoint
<1>3. SaveCursor => OtherScreenUntouched
  BY DEF Inv, TypeOK, Buffer, SaveCursor, OtherScreenUntouched
<1>4. ASSUME NEW erase \in BOOLEAN, Reset(erase)
      PROVE  OtherScreenUntouched
  BY <1>4 DEF Reset, OtherScreenUntouched
<1>5. Control => OtherScreenUntouched
  BY <1>1, <1>3, <1>4, Zenon
     DEF Control, Backspace, Tab, BackTab, SetTabStop, Linefeed, NextLine, DoLinefeed, CarriageReturn,
         BackIndex, ForwardIndex, ReverseIndex, LowerLeft, AlignmentTest, RestoreCursor
<1>6. Move => OtherScreenUntouched
  BY <1>1, Zenon
     DEF Move, Moves, CursorUp, CursorDown, CursorForward, CursorBackward, CursorNextLine,
         CursorPreviousLine, ColumnAbsolute, RowAbsolute, ColumnPosition, RowRelative, CursorPosition,
         SetTopBottomMargins, SetLeftRightMargins
<1>7. Edit => OtherScreenUntouched
  BY <1>1, Zenon
     DEF Edit, Edits, EditsAndStays, InsertCharacters, DeleteCharacters, EraseCharacters, InsertLines,
         DeleteLines, ScrollDown, InsertColumns, DeleteColumns, EraseInDisplay, EraseInLine,
         SelectiveErase, ScrollUp, CopyRectangle, FillRectangle, ChangeAttributes
<1>8. Mode => OtherScreenUntouched
  <2>1. ASSUME NEW s \in Sizes, Resize(s)
        PROVE  OtherScreenUntouched
    BY <2>1 DEF Resize, OtherScreenUntouched
  <2> QED
    BY <1>1, <2>1, Zenon DEF Mode, ColumnMode, OriginMode, LeftRightMarginMode
<1>9. UNCHANGED vars => OtherScreenUntouched
  BY DEF vars, screens, OtherScreenUntouched
<1>10. OtherScreenUntouched
  BY <1>2, <1>5, <1>6, <1>7, <1>8, <1>9 DEF Next
<1> QED
  BY <1>10 DEF OtherScreenUntouched, KeepsMainCursor

\* A program that draws on the alternate screen gives the cursor back as it was.
THEOREM AlternateScreenKeepsCursor == Spec => AlternateKeepsCursor
<1>1. Inv /\ [Next]_vars => [KeepsMainCursor]_vars
  BY EnterSavesCursor, LeaveRestoresCursor, OthersKeepCursor
<1> QED
  BY <1>1, InvHolds, PTL DEF Spec, AlternateKeepsCursor
=============================================================================
