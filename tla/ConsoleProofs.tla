----------------------------- MODULE ConsoleProofs -----------------------------
(***************************************************************************)
(* Proofs about Console for every size of the screen and of the buffer,    *)
(* every table of keys and every set of prompts.                           *)
(*                                                                         *)
(* The screen is seen as one row of cells with a position: a character     *)
(* printed adds one to the position, an end of line a little more, and     *)
(* either may slide the whole picture by one row.  What has to be shown    *)
(* of the program is that what it prints follows the prompt and the line.  *)
(***************************************************************************)
EXTENDS Console, SequenceTheorems, TLAPS

Picture == [Cell -> Glyph]

ScreenTypeOK == video \in Picture /\ cursor_x \in Column /\ cursor_y \in Row
KeyboardTypeOK == shift_pressed \in BOOLEAN /\ held \subseteq Shift
ProgramTypeOK ==
    /\ mode \in Mode
    /\ prompt \in Seq(Glyph) /\ out \in Seq(Glyph \cup {NewLine})
    /\ buffer \in Seq(Glyph) /\ Len(buffer) < MAX_LENGTH
MenuTypeOK ==
    pending \in Seq([row : Nat, text : Seq(Glyph)]) /\ selected \in 0 .. 1

(***************************************************************************)
(* The grid                                                                *)
(***************************************************************************)

\* Position numbers the cells row by row.
LEMMA GridPosition ==
    ASSUME NEW x \in Column, NEW y \in Row
    PROVE  /\ y * SCREEN_WIDTH + x \in Cell
           /\ LastRow \in Nat /\ Cells = LastRow + SCREEN_WIDTH
           /\ y * SCREEN_WIDTH \in Nat /\ y * SCREEN_WIDTH <= LastRow
           /\ y + 1 >= SCREEN_HEIGHT => y * SCREEN_WIDTH = LastRow
           /\ (y + 1) * SCREEN_WIDTH = y * SCREEN_WIDTH + SCREEN_WIDTH
           /\ (y - 1) * SCREEN_WIDTH = y * SCREEN_WIDTH - SCREEN_WIDTH
<1>1. SCREEN_WIDTH \in Nat /\ SCREEN_HEIGHT \in Nat /\ SCREEN_WIDTH > 0 /\ SCREEN_HEIGHT > 0
  BY ScreenAssumption
<1>2. x \in Nat /\ x < SCREEN_WIDTH /\ y \in Nat /\ y <= SCREEN_HEIGHT - 1
  BY <1>1 DEF Column, Row
<1>3. y * SCREEN_WIDTH \in Nat
  BY <1>1, <1>2
<1>4. y * SCREEN_WIDTH <= SCREEN_WIDTH * (SCREEN_HEIGHT - 1)
  BY <1>1, <1>2
<1>5. SCREEN_WIDTH * (SCREEN_HEIGHT - 1) = SCREEN_WIDTH * SCREEN_HEIGHT - SCREEN_WIDTH
  BY <1>1
<1>6. SCREEN_WIDTH * (SCREEN_HEIGHT - 1) \in Nat
  BY <1>1, <1>2, <1>3, <1>4
<1>7. y + 1 >= SCREEN_HEIGHT => y * SCREEN_WIDTH = SCREEN_WIDTH * (SCREEN_HEIGHT - 1)
  BY <1>1, <1>2
<1>8. /\ (y + 1) * SCREEN_WIDTH = y * SCREEN_WIDTH + SCREEN_WIDTH
      /\ (y - 1) * SCREEN_WIDTH = y * SCREEN_WIDTH - SCREEN_WIDTH
  BY <1>1, <1>2
<1>9. SCREEN_WIDTH * SCREEN_HEIGHT \in Int
  BY <1>1
<1>10. /\ LastRow \in Nat /\ Cells = LastRow + SCREEN_WIDTH
       /\ y * SCREEN_WIDTH <= LastRow
       /\ y + 1 >= SCREEN_HEIGHT => y * SCREEN_WIDTH = LastRow
  BY <1>1, <1>4, <1>5, <1>6, <1>7, <1>9 DEF LastRow, Cells
<1>11. Cells \in Int
  BY <1>9 DEF Cells
<1>12. y * SCREEN_WIDTH + x \in Cell
  BY <1>1, <1>2, <1>3, <1>10, <1>11 DEF Cell
<1> QED
  BY <1>3, <1>8, <1>10, <1>12

\* What is scrolled out at the top comes in blank at the bottom.
LEMMA ScrolledType ==
    ASSUME NEW cells \in Picture
    PROVE  /\ Scrolled(cells) \in Picture
           /\ \A i \in Cell : i < LastRow => Scrolled(cells)[i] = cells[i + SCREEN_WIDTH]
           /\ \A i \in Cell : i >= LastRow => Scrolled(cells)[i] = Blank
<1>1. SCREEN_WIDTH \in Nat /\ SCREEN_WIDTH > 0
  BY ScreenAssumption
<1>2. 0 \in Column /\ 0 \in Row
  BY ScreenAssumption DEF Column, Row
<1>3. LastRow \in Nat /\ Cells = LastRow + SCREEN_WIDTH
  BY <1>2, GridPosition
<1>4. ASSUME NEW i \in Cell, i < LastRow PROVE i + SCREEN_WIDTH \in Cell
  BY <1>1, <1>3, <1>4 DEF Cell
<1>5. Blank \in Glyph
  BY CharAssumption
<1> QED
  BY <1>1, <1>3, <1>4, <1>5 DEF Scrolled, Picture, Cell

(***************************************************************************)
(* What the operations of screen.c do to the picture and the position      *)
(***************************************************************************)

\* The cursor moves to the next row, or the picture slides up under it.
LEMMA NextRowEffect ==
    ASSUME ScreenTypeOK, NEW cells \in Picture, NextRow(cells)
    PROVE  /\ ScreenTypeOK'
           /\ \/ /\ video' = cells
                 /\ Position' = cursor_y * SCREEN_WIDTH + SCREEN_WIDTH
                 /\ Position' <= LastRow
              \/ /\ video' = Scrolled(cells)
                 /\ cursor_y * SCREEN_WIDTH = LastRow
                 /\ Position' = LastRow
<1>1. 0 \in Column /\ SCREEN_HEIGHT - 1 \in Row /\ SCREEN_WIDTH \in Nat
  BY ScreenAssumption DEF Column, Row
<1>2. cursor_x \in Column /\ cursor_y \in Row
  BY DEF ScreenTypeOK
<1>3. CASE /\ cursor_y + 1 >= SCREEN_HEIGHT
           /\ cursor_x' = 0
           /\ cursor_y' = SCREEN_HEIGHT - 1
           /\ video' = Scrolled(cells)
  <2>1. cursor_y * SCREEN_WIDTH = LastRow
    BY <1>2, <1>3, GridPosition
  <2>2. (SCREEN_HEIGHT - 1) * SCREEN_WIDTH = LastRow /\ LastRow \in Nat
    BY <1>1, GridPosition, ScreenAssumption
  <2>3. Position' = LastRow
    BY <1>3, <2>2 DEF Position
  <2>4. ScreenTypeOK'
    BY <1>1, <1>3, ScrolledType DEF ScreenTypeOK
  <2> QED
    BY <1>3, <2>1, <2>3, <2>4
<1>4. CASE /\ cursor_y + 1 < SCREEN_HEIGHT
           /\ cursor_x' = 0
           /\ cursor_y' = cursor_y + 1
           /\ video' = cells
  <2>1. cursor_y + 1 \in Row
    BY <1>2, <1>4, ScreenAssumption DEF Row
  <2>2. (cursor_y + 1) * SCREEN_WIDTH = cursor_y * SCREEN_WIDTH + SCREEN_WIDTH
    BY <1>2, GridPosition
  <2>3. (cursor_y + 1) * SCREEN_WIDTH <= LastRow /\ (cursor_y + 1) * SCREEN_WIDTH \in Nat
    BY <1>1, <2>1, GridPosition
  <2>4. Position' = (cursor_y + 1) * SCREEN_WIDTH
    BY <1>4, <2>3 DEF Position
  <2>5. ScreenTypeOK'
    BY <1>1, <1>4, <2>1 DEF ScreenTypeOK
  <2> QED
    BY <1>4, <2>2, <2>3, <2>4, <2>5
<1> QED
  BY <1>3, <1>4 DEF NextRow

\* The position is within the screen, in the row of the cursor.
LEMMA PositionInScreen ==
    ASSUME ScreenTypeOK
    PROVE  /\ Position \in Cell /\ Position \in Nat
           /\ Position = cursor_y * SCREEN_WIDTH + cursor_x
           /\ cursor_y * SCREEN_WIDTH \in Nat /\ cursor_y * SCREEN_WIDTH <= LastRow
           /\ cursor_x \in Nat /\ cursor_x < SCREEN_WIDTH
           /\ LastRow \in Nat /\ Cells = LastRow + SCREEN_WIDTH
           /\ SCREEN_WIDTH \in Nat \ {0}
<1>1. cursor_x \in Column /\ cursor_y \in Row
  BY DEF ScreenTypeOK
<1> QED
  BY <1>1, GridPosition, ScreenAssumption DEF Position, Column, Cell

\* A character takes one cell; at the end of the screen the picture slides.
LEMMA PrintEffect ==
    ASSUME ScreenTypeOK, NEW c \in Glyph, screen_print_char(c)
    PROVE  /\ ScreenTypeOK'
           /\ \/ video' = Written(c) /\ Position' = Position + 1
              \/ /\ video' = Scrolled(Written(c))
                 /\ Position = Cells - 1 /\ Position' = LastRow
<1>1. c # NewLine
  BY CharAssumption
<1>2. Written(c) \in Picture
  BY PositionInScreen DEF Written, Picture, ScreenTypeOK
<1>3. cursor_x \in Column /\ cursor_y \in Row
  BY DEF ScreenTypeOK
<1>4. CASE cursor_x + 1 >= SCREEN_WIDTH /\ NextRow(Written(c))
  <2>1. cursor_x + 1 = SCREEN_WIDTH
    BY <1>3, <1>4, ScreenAssumption DEF Column
  <2>2. Position + 1 = cursor_y * SCREEN_WIDTH + SCREEN_WIDTH
    BY <2>1, PositionInScreen
  <2> QED
    BY <1>2, <1>4, <2>2, NextRowEffect, PositionInScreen
<1>5. CASE /\ cursor_x + 1 < SCREEN_WIDTH
           /\ video' = Written(c)
           /\ cursor_x' = cursor_x + 1
           /\ cursor_y' = cursor_y
  <2>1. cursor_x + 1 \in Column
    BY <1>3, <1>5, ScreenAssumption DEF Column
  <2>2. ScreenTypeOK'
    BY <1>2, <1>3, <1>5, <2>1 DEF ScreenTypeOK
  <2>3. Position' = cursor_y * SCREEN_WIDTH + (cursor_x + 1)
    BY <1>5 DEF Position
  <2>4. Position' = Position + 1
    BY <2>3, PositionInScreen
  <2> QED
    BY <1>5, <2>2, <2>4
<1> QED
  BY <1>1, <1>4, <1>5 DEF screen_print_char

LEMMA PrintType ==
    ASSUME ScreenTypeOK, NEW c \in Glyph \cup {NewLine}, screen_print_char(c)
    PROVE  ScreenTypeOK'
<1>1. CASE c \in Glyph
  BY <1>1, PrintEffect
<1>2. CASE c = NewLine
  <2>1. NextRow(video) /\ video \in Picture
    BY <1>2 DEF screen_print_char, ScreenTypeOK
  <2> QED
    BY <2>1, NextRowEffect
<1> QED
  BY <1>1, <1>2

\* Backspace steps one cell back, over the end of a row too.
LEMMA BackspaceEffect ==
    ASSUME ScreenTypeOK, screen_backspace
    PROVE  /\ ScreenTypeOK'
           /\ Position > 0 => Position' = Position - 1
           /\ Position = 0 => Position' = 0
           /\ video' = [video EXCEPT ![Position'] = Blank]
<1>1. cursor_x \in Column /\ cursor_y \in Row
  BY DEF ScreenTypeOK
<1>2. video' = [video EXCEPT ![Position'] = Blank] /\ Blank \in Glyph
  BY CharAssumption DEF screen_backspace, Position
<1>3. ASSUME cursor_x' \in Column, cursor_y' \in Row PROVE ScreenTypeOK'
  BY <1>2, <1>3 DEF ScreenTypeOK, Picture
<1>4. CASE cursor_x > 0 /\ cursor_x' = cursor_x - 1 /\ cursor_y' = cursor_y
  <2>1. cursor_x' \in Column /\ cursor_y' \in Row
    BY <1>1, <1>4, ScreenAssumption DEF Column
  <2>2. Position' = cursor_y * SCREEN_WIDTH + (cursor_x - 1)
    BY <1>4 DEF Position
  <2> QED
    BY <1>2, <1>3, <1>4, <2>1, <2>2, PositionInScreen
<1>5. CASE /\ cursor_x = 0 /\ cursor_y > 0
           /\ cursor_x' = SCREEN_WIDTH - 1
           /\ cursor_y' = cursor_y - 1
  <2>1. cursor_x' \in Column /\ cursor_y' \in Row
    BY <1>1, <1>5, ScreenAssumption DEF Column, Row
  <2>2. Position' = (cursor_y - 1) * SCREEN_WIDTH + (SCREEN_WIDTH - 1)
    BY <1>5 DEF Position
  <2>3. (cursor_y - 1) * SCREEN_WIDTH = cursor_y * SCREEN_WIDTH - SCREEN_WIDTH
    BY <1>1, GridPosition
  <2>4. cursor_y - 1 \in Row
    BY <1>5, <2>1
  <2>5. (cursor_y - 1) * SCREEN_WIDTH \in Nat
    BY <1>1, <2>4, GridPosition
  <2> QED
    BY <1>2, <1>3, <1>5, <2>1, <2>2, <2>3, <2>5, PositionInScreen
<1>6. CASE cursor_x = 0 /\ cursor_y = 0 /\ cursor_x' = cursor_x /\ cursor_y' = cursor_y
  <2>1. Position' = Position /\ Position = 0
    BY <1>6, ScreenAssumption DEF Position
  <2> QED
    BY <1>1, <1>2, <1>3, <1>6, <2>1, PositionInScreen
<1> QED
  BY <1>4, <1>5, <1>6 DEF screen_backspace

LEMMA ClearEffect ==
    ASSUME screen_clear
    PROVE  ScreenTypeOK' /\ Position' = 0 /\ \A i \in Cell : video'[i] = Blank
<1>1. 0 \in Column /\ 0 \in Row
  BY ScreenAssumption DEF Column, Row
<1>2. Position' = 0
  BY ScreenAssumption DEF screen_clear, Position
<1> QED
  BY <1>1, <1>2, CharAssumption DEF screen_clear, ScreenTypeOK, Picture

LEMMA SetRowType ==
    ASSUME ScreenTypeOK, NEW row \in Nat, screen_set_row(row)
    PROVE  ScreenTypeOK'
<1>1. 0 \in Column
  BY ScreenAssumption DEF Column
<1>2. row < SCREEN_HEIGHT => row \in Row
  BY ScreenAssumption DEF Row
<1> QED
  BY <1>1, <1>2 DEF screen_set_row, ScreenTypeOK

(***************************************************************************)
(* Types                                                                   *)
(***************************************************************************)

Line == [row : Nat, text : Seq(Glyph)]

LEMMA TypeParts ==
    ConsoleTypeOK <=> ScreenTypeOK /\ KeyboardTypeOK /\ ProgramTypeOK /\ MenuTypeOK
BY DEF ConsoleTypeOK, ScreenTypeOK, KeyboardTypeOK, ProgramTypeOK, MenuTypeOK, Picture

LEMMA MenuLines ==
    ASSUME NEW choice \in 0 .. 1
    PROVE  Options(choice) \in Seq(Line) /\ Heading \o Options(choice) \in Seq(Line)
<1>1. \A option \in 0 .. 1 : Drawn(option, choice) \in Seq(Glyph)
  BY MenuAssumption, CharAssumption DEF Drawn
<1>2. Options(choice) \in Seq(Line)
  BY <1>1, MenuAssumption DEF Options, Line
<1>3. Heading \in Seq(Line)
  BY MenuAssumption DEF Line
<1> QED
  BY <1>2, <1>3

LEMMA FirstLine ==
    ASSUME MenuTypeOK, pending # << >>
    PROVE  Head(pending).row \in Nat /\ Head(pending).text \in Seq(Glyph)
<1>1. pending \in Seq(Line)
  BY DEF MenuTypeOK, Line
<1>2. Head(pending) \in Line
  BY <1>1
<1> QED
  BY <1>2 DEF Line

LEMMA ScreenTypeStep ==
    ASSUME ConsoleTypeOK, ConsoleNext
    PROVE  ScreenTypeOK'
<1> USE TypeParts
<1>1. CASE UNCHANGED screen
  BY <1>1 DEF screen, ScreenTypeOK
<1>2. CASE screen_clear
  BY <1>2, ClearEffect
<1>3. CASE PrintNext
  <2>1. Head(out) \in Glyph \cup {NewLine}
    BY <1>3 DEF PrintNext, ProgramTypeOK
  <2> QED
    BY <1>3, <2>1, PrintType DEF PrintNext
<1>4. CASE DrawLine
  <2>1. Head(pending).row \in Nat
    BY <1>4, FirstLine DEF DrawLine
  <2> QED
    BY <1>4, <2>1, SetRowType DEF DrawLine
<1>5. ASSUME NEW key \in Key, Enter(key) PROVE ScreenTypeOK'
  BY <1>5, PrintType DEF Enter
<1>6. ASSUME NEW key \in Key, Erase(key) PROVE ScreenTypeOK'
  BY <1>6, BackspaceEffect DEF Erase
<1>7. ASSUME NEW key \in Key, Store(key) PROVE ScreenTypeOK'
  <2>1. Echo(getchar(key)) \in Glyph
    BY <1>7, CharAssumption DEF Store, Echo
  <2> QED
    BY <1>7, <2>1, PrintType DEF Store
<1> QED
  BY <1>1, <1>2, <1>3, <1>4, <1>5, <1>6, <1>7
  DEF ConsoleNext, Program, Typist, Say, Clear, AskFor, OpenMenu, ShiftDown, ShiftUp,
      Arrow, MenuEnter, MenuReturn

LEMMA KeyboardTypeStep ==
    ASSUME KeyboardTypeOK, ConsoleNext
    PROVE  KeyboardTypeOK'
<1>1. CASE UNCHANGED keyboard
  BY <1>1 DEF keyboard, KeyboardTypeOK
<1>2. ASSUME NEW key \in Shift, ShiftDown(key) PROVE KeyboardTypeOK'
  BY <1>2 DEF ShiftDown, KeyboardTypeOK
<1>3. ASSUME NEW key \in Shift, ShiftUp(key) PROVE KeyboardTypeOK'
  BY <1>3 DEF ShiftUp, KeyboardTypeOK
<1>4. CASE MenuReturn
  BY <1>4 DEF MenuReturn, KeyboardTypeOK
<1> QED
  BY <1>1, <1>2, <1>3, <1>4
  DEF ConsoleNext, Program, Typist, Say, Clear, AskFor, OpenMenu, PrintNext, DrawLine,
      Enter, Erase, Store, Arrow, MenuEnter

LEMMA ProgramTypeStep ==
    ASSUME ConsoleTypeOK, ConsoleNext
    PROVE  ProgramTypeOK'
<1> USE TypeParts DEF ProgramTypeOK, Mode
<1>1. ASSUME NEW text \in Texts, Say(text) PROVE ProgramTypeOK'
  BY <1>1, PromptAssumption DEF Say
<1>2. CASE Clear \/ MenuReturn \/ MenuEnter \/ OpenMenu
  BY <1>2 DEF Clear, MenuReturn, MenuEnter, OpenMenu, program
<1>3. ASSUME NEW kind \in {"line", "password"}, NEW text \in Prompts, AskFor(kind, text)
      PROVE  ProgramTypeOK'
  <2>1. text \in Seq(Glyph) /\ text \in Seq(Glyph \cup {NewLine})
    BY PromptAssumption
  <2> QED
    BY <1>3, <2>1, ScreenAssumption DEF AskFor
<1>4. CASE PrintNext
  BY <1>4 DEF PrintNext
<1>5. CASE DrawLine
  <2>1. Head(pending).text \in Seq(Glyph)
    BY <1>5, FirstLine DEF DrawLine
  <2>2. Head(pending).text \in Seq(Glyph \cup {NewLine})
    BY <2>1
  <2> QED
    BY <1>5, <2>2 DEF DrawLine
<1>6. ASSUME NEW key \in Key, Enter(key) PROVE ProgramTypeOK'
  BY <1>6 DEF Enter
<1>7. ASSUME NEW key \in Key, Erase(key) PROVE ProgramTypeOK'
  BY <1>7, ScreenAssumption DEF Erase
<1>8. ASSUME NEW key \in Key, Store(key) PROVE ProgramTypeOK'
  <2>1. buffer' \in Seq(Glyph) /\ Len(buffer') = Len(buffer) + 1
    BY <1>8 DEF Store
  <2> QED
    BY <1>8, <2>1, ScreenAssumption DEF Store, HasRoom
<1>9. CASE UNCHANGED <<mode, prompt, out, buffer>>
  BY <1>9
<1> QED
  BY <1>1, <1>2, <1>3, <1>4, <1>5, <1>6, <1>7, <1>8, <1>9
  DEF ConsoleNext, Program, Typist, ShiftDown, ShiftUp, Arrow, program

LEMMA MenuTypeStep ==
    ASSUME ConsoleTypeOK, ConsoleNext
    PROVE  MenuTypeOK'
<1> USE TypeParts
<1>1. CASE UNCHANGED menu
  BY <1>1 DEF menu, MenuTypeOK
<1>2. CASE OpenMenu
  BY <1>2, MenuLines DEF OpenMenu, MenuTypeOK, Line
<1>3. CASE DrawLine
  BY <1>3 DEF DrawLine, MenuTypeOK
<1>4. ASSUME NEW choice \in 0 .. 1, Arrow(choice) PROVE MenuTypeOK'
  BY <1>4, MenuLines DEF Arrow, Redraws, MenuTypeOK, Line
<1> QED
  BY <1>1, <1>2, <1>3, <1>4
  DEF ConsoleNext, Program, Typist, Say, Clear, AskFor, PrintNext, ShiftDown, ShiftUp,
      Enter, Erase, Store, MenuEnter, MenuReturn, program

(***************************************************************************)
(* Whatever is printed, typed or erased, at any size of the screen, the    *)
(* cursor stays on it and the line within its buffer (screen.c writes to   *)
(* video memory at the cursor without a check of its own).                 *)
(***************************************************************************)
THEOREM ConsoleTypeCorrect == ConsoleSpec => []ConsoleTypeOK
<1>1. ConsoleInit => ConsoleTypeOK
  <2> SUFFICES ASSUME ConsoleInit PROVE ConsoleTypeOK
    OBVIOUS
  <2>1. 0 \in Column /\ 0 \in Row
    BY ScreenAssumption DEF Column, Row
  <2>2. ScreenTypeOK
    BY <2>1, CharAssumption DEF ConsoleInit, ScreenTypeOK, Picture
  <2>3. KeyboardTypeOK
    BY DEF ConsoleInit, KeyboardTypeOK
  <2>4. ProgramTypeOK
    BY ScreenAssumption DEF ConsoleInit, ProgramTypeOK, Mode
  <2>5. MenuTypeOK
    BY DEF ConsoleInit, MenuTypeOK
  <2> QED
    BY <2>2, <2>3, <2>4, <2>5, TypeParts
<1>2. ConsoleTypeOK /\ [ConsoleNext]_consoleVars => ConsoleTypeOK'
  <2> SUFFICES ASSUME ConsoleTypeOK, [ConsoleNext]_consoleVars PROVE ConsoleTypeOK'
    OBVIOUS
  <2>1. CASE ConsoleNext
    BY <2>1, TypeParts, ScreenTypeStep, KeyboardTypeStep, ProgramTypeStep, MenuTypeStep
    DEF ConsoleTypeOK, ScreenTypeOK, KeyboardTypeOK, ProgramTypeOK, MenuTypeOK, Picture
  <2>2. CASE UNCHANGED consoleVars
    BY <2>2 DEF ConsoleTypeOK, consoleVars, screen, keyboard, program, menu
  <2> QED
    BY <2>1, <2>2
<1> QED
  BY <1>1, <1>2, PTL DEF ConsoleSpec

(***************************************************************************)
(* Upper case is typed only under a Shift key: the flag is set with a key  *)
(* added to those held, and the release of the last one clears it.         *)
(***************************************************************************)
THEOREM ShiftHeld == ConsoleSpec => []ShiftFollowsKeys
<1>1. ConsoleInit => ShiftFollowsKeys
  BY DEF ConsoleInit, ShiftFollowsKeys
<1>2. ShiftFollowsKeys /\ [ConsoleNext]_consoleVars => ShiftFollowsKeys'
  <2> SUFFICES ASSUME ShiftFollowsKeys, [ConsoleNext]_consoleVars PROVE ShiftFollowsKeys'
    OBVIOUS
  <2>1. CASE UNCHANGED keyboard
    BY <2>1 DEF keyboard, ShiftFollowsKeys
  <2>2. ASSUME NEW key \in Shift, ShiftDown(key) PROVE ShiftFollowsKeys'
    BY <2>2 DEF ShiftDown, ShiftFollowsKeys
  <2>3. ASSUME NEW key \in Shift, ShiftUp(key) PROVE ShiftFollowsKeys'
    BY <2>3 DEF ShiftUp, ShiftFollowsKeys, ClearsShift
  <2>4. CASE MenuReturn
    BY <2>4 DEF MenuReturn, ShiftFollowsKeys
  <2> QED
    BY <2>1, <2>2, <2>3, <2>4
    DEF ConsoleNext, consoleVars, Program, Typist, Say, Clear, AskFor, OpenMenu,
        PrintNext, DrawLine, Enter, Erase, Store, Arrow, MenuEnter
<1> QED
  BY <1>1, <1>2, PTL DEF ConsoleSpec

(***************************************************************************)
(* Nothing after the cursor                                                *)
(***************************************************************************)

\* The lines of the menu are all printed before its end.
PendingInMenu == mode # "menu" => pending = << >>

LEMMA PendingStep ==
    ASSUME ConsoleTypeOK, PendingInMenu, [ConsoleNext]_consoleVars
    PROVE  PendingInMenu'
<1> USE DEF PendingInMenu
<1>1. CASE UNCHANGED <<mode, pending>>
  BY <1>1
<1>2. ASSUME NEW kind \in {"line", "password"}, NEW text \in Prompts, AskFor(kind, text)
      PROVE  PendingInMenu'
  BY <1>2 DEF AskFor, Ready, menu
<1>3. ASSUME NEW choice \in 0 .. 1, Arrow(choice) PROVE PendingInMenu'
  BY <1>3 DEF Arrow, InMenu
<1>4. CASE OpenMenu \/ DrawLine \/ MenuEnter \/ MenuReturn
  BY <1>4 DEF OpenMenu, DrawLine, MenuEnter, MenuReturn, InMenu, menu
<1>5. ASSUME NEW key \in Key, Enter(key) PROVE PendingInMenu'
  BY <1>5 DEF Enter, Reading, menu
<1> QED
  BY <1>1, <1>2, <1>3, <1>4, <1>5
  DEF ConsoleNext, Program, Typist, Say, Clear, PrintNext, ShiftDown, ShiftUp,
      Erase, Store, consoleVars, program, menu

BlankFrom(cells, position) == \A i \in Cell : i >= position => cells[i] = Blank

LEMMA PrintBlank ==
    ASSUME ScreenTypeOK, BlankFrom(video, Position),
           NEW c \in Glyph \cup {NewLine}, screen_print_char(c)
    PROVE  BlankFrom(video', Position')
<1>1. CASE c = NewLine
  <2>1. NextRow(video) /\ video \in Picture
    BY <1>1 DEF screen_print_char, ScreenTypeOK
  <2>2. CASE video' = video /\ Position' = cursor_y * SCREEN_WIDTH + SCREEN_WIDTH
    <3>1. Position' >= Position /\ Position' \in Nat
      BY <2>2, PositionInScreen
    <3> QED
      BY <2>2, <3>1, PositionInScreen DEF BlankFrom, Cell
  <2>3. CASE video' = Scrolled(video) /\ Position' = LastRow
    BY <2>1, <2>3, ScrolledType DEF BlankFrom
  <2> QED
    BY <2>1, <2>2, <2>3, NextRowEffect
<1>2. CASE c \in Glyph
  <2>1. Written(c) \in Picture
    BY <1>2, PositionInScreen DEF Written, Picture, ScreenTypeOK
  <2>2. CASE video' = Written(c) /\ Position' = Position + 1
    <3>1. \A i \in Cell : i >= Position + 1 => Written(c)[i] = video[i]
      BY PositionInScreen DEF Written, Cell, Picture, ScreenTypeOK
    <3> QED
      BY <2>2, <3>1, PositionInScreen DEF BlankFrom, Cell
  <2>3. CASE video' = Scrolled(Written(c)) /\ Position' = LastRow
    BY <2>1, <2>3, ScrolledType DEF BlankFrom
  <2> QED
    BY <1>2, <2>2, <2>3, PrintEffect
<1> QED
  BY <1>1, <1>2

LEMMA EraseBlank ==
    ASSUME ScreenTypeOK, BlankFrom(video, Position), screen_backspace
    PROVE  BlankFrom(video', Position')
<1>1. video \in Picture /\ Position' \in Cell /\ Position \in Nat /\ Position' \in Nat
  BY BackspaceEffect, PositionInScreen DEF Cell, ScreenTypeOK
<1>2. Position' = Position - 1 \/ Position' = Position
  BY BackspaceEffect, PositionInScreen
<1> QED
  <2> SUFFICES ASSUME NEW i \in Cell, i >= Position' PROVE video'[i] = Blank
    BY DEF BlankFrom
  <2>1. video' = [video EXCEPT ![Position'] = Blank]
    BY BackspaceEffect
  <2>2. i = Position' \/ i >= Position
    BY <1>1, <1>2 DEF Cell
  <2>3. DOMAIN video = Cell
    BY <1>1 DEF Picture
  <2> QED
    BY <2>1, <2>2, <2>3 DEF BlankFrom

BlankInv == PendingInMenu /\ BlankAfterCursor

LEMMA BlankStep ==
    ASSUME ConsoleTypeOK, PendingInMenu, BlankAfterCursor, ConsoleNext
    PROVE  BlankAfterCursor'
<1> SUFFICES ASSUME mode' \notin {"menu", "menu_release"}
             PROVE  BlankFrom(video', Position')
  BY DEF BlankAfterCursor, BlankFrom
<1> USE TypeParts
<1>1. CASE screen_clear
  BY <1>1, ClearEffect DEF BlankFrom
<1>2. CASE mode \in {"menu", "menu_release"} /\ ~ screen_clear
  BY <1>2 DEF ConsoleNext, Program, Typist, Say, Clear, AskFor, OpenMenu, PrintNext,
     DrawLine, ShiftDown, ShiftUp, Enter, Erase, Store, Arrow, MenuEnter, MenuReturn,
     Ready, Reading, InMenu, program
<1>3. CASE mode \notin {"menu", "menu_release"} /\ ~ screen_clear
  <2>1. BlankFrom(video, Position)
    BY <1>3 DEF BlankAfterCursor, BlankFrom
  <2>2. CASE UNCHANGED screen
    BY <2>1, <2>2 DEF screen, Position
  <2>3. CASE PrintNext
    <3>1. Head(out) \in Glyph \cup {NewLine}
      BY <2>3 DEF PrintNext, ProgramTypeOK
    <3> QED
      BY <2>1, <2>3, <3>1, PrintBlank DEF PrintNext
  <2>4. ASSUME NEW key \in Key, Enter(key) PROVE BlankFrom(video', Position')
    BY <2>1, <2>4, PrintBlank DEF Enter
  <2>5. ASSUME NEW key \in Key, Erase(key) PROVE BlankFrom(video', Position')
    BY <2>1, <2>5, EraseBlank DEF Erase
  <2>6. ASSUME NEW key \in Key, Store(key) PROVE BlankFrom(video', Position')
    <3>1. Echo(getchar(key)) \in Glyph
      BY <2>6, CharAssumption DEF Store, Echo
    <3> QED
      BY <2>1, <2>6, <3>1, PrintBlank DEF Store
  <2>7. CASE DrawLine
    BY <1>3, <2>7 DEF DrawLine, PendingInMenu
  <2> QED
    BY <1>3, <2>2, <2>3, <2>4, <2>5, <2>6, <2>7
    DEF ConsoleNext, Program, Typist, Say, Clear, AskFor, OpenMenu, ShiftDown, ShiftUp,
        Arrow, MenuEnter, MenuReturn
<1> QED
  BY <1>1, <1>2, <1>3

(***************************************************************************)
(* Backspace and scrolling leave nothing behind: every cell from the       *)
(* cursor on is blank, however lines wrapped, scrolled and were erased,    *)
(* except while the menu moves the cursor by itself.                       *)
(***************************************************************************)
THEOREM NothingLeftBehind == ConsoleSpec => []BlankAfterCursor
<1>1. ConsoleInit => BlankInv
  BY DEF ConsoleInit, BlankInv, PendingInMenu, BlankAfterCursor
<1>2. ConsoleTypeOK /\ BlankInv /\ [ConsoleNext]_consoleVars => BlankInv'
  <2> SUFFICES ASSUME ConsoleTypeOK, BlankInv, [ConsoleNext]_consoleVars
               PROVE  BlankInv'
    OBVIOUS
  <2>1. PendingInMenu'
    BY PendingStep DEF BlankInv
  <2>2. CASE ConsoleNext
    BY <2>1, <2>2, BlankStep DEF BlankInv
  <2>3. CASE UNCHANGED consoleVars
    BY <2>1, <2>3
    DEF BlankInv, BlankAfterCursor, Position, consoleVars, screen, program
  <2> QED
    BY <2>2, <2>3
<1>3. BlankInv => BlankAfterCursor
  BY DEF BlankInv
<1> QED
  BY <1>1, <1>2, <1>3, ConsoleTypeCorrect, PTL DEF ConsoleSpec

(***************************************************************************)
(* The line on the screen                                                  *)
(***************************************************************************)

\* The text ends at the position.
Shown(cells, position, text) ==
    /\ Len(text) <= position
    /\ \A k \in 1 .. Len(text) : cells[position - Len(text) + k - 1] = text[k]

\* A character printed after it prolongs the text, also when it scrolls.
LEMMA PrintShown ==
    ASSUME ScreenTypeOK, NEW c \in Glyph, screen_print_char(c),
           NEW text \in Seq(Glyph), Len(text) + 1 <= LastRow,
           Shown(video, Position, text)
    PROVE  Shown(video', Position', Append(text, c))
<1> DEFINE n == Len(text)
<1> DEFINE longer == Append(text, c)
<1>1. n \in Nat /\ Len(longer) = n + 1
  OBVIOUS
<1>2. \A k \in 1 .. n : longer[k] = text[k]
  OBVIOUS
<1>3. longer[n + 1] = c
  OBVIOUS
<1>4. Written(c) \in Picture /\ video \in Picture
  BY PositionInScreen DEF Written, Picture, ScreenTypeOK
<1>5. /\ Position \in Nat /\ n <= Position /\ Position \in Cell
      /\ LastRow \in Nat /\ SCREEN_WIDTH \in Nat \ {0} /\ Cells = LastRow + SCREEN_WIDTH
  BY PositionInScreen DEF Shown
<1>6. \A k \in 1 .. n : video[Position - n + k - 1] = text[k]
  BY DEF Shown
<1> HIDE DEF n, longer
<1>7. \A k \in 1 .. n + 1 : Position - n + k - 1 \in Cell
  BY <1>1, <1>5 DEF Cell
<1>8. \A k \in 1 .. n + 1 : Written(c)[Position - n + k - 1] = longer[k]
  <2> TAKE k \in 1 .. n + 1
  <2>1. CASE k = n + 1
    <3>1. Position - n + k - 1 = Position
      BY <1>1, <1>5, <2>1
    <3> QED
      BY <1>3, <1>4, <1>5, <2>1, <3>1 DEF Written, Picture
  <2>2. CASE k \in 1 .. n
    <3>1. Position - n + k - 1 # Position /\ Position - n + k - 1 \in Cell
      BY <1>1, <1>5, <1>7, <2>2
    <3>2. Written(c)[Position - n + k - 1] = video[Position - n + k - 1]
      BY <1>4, <3>1 DEF Written, Picture
    <3> QED
      BY <1>2, <1>6, <2>2, <3>2
  <2> QED
    BY <1>1, <2>1, <2>2
<1>9. CASE video' = Written(c) /\ Position' = Position + 1
  <2>1. \A k \in 1 .. n + 1 : Position' - (n + 1) + k - 1 = Position - n + k - 1
    BY <1>1, <1>5, <1>9
  <2>2. Len(longer) <= Position'
    BY <1>1, <1>5, <1>9
  <2> QED
    BY <1>1, <1>8, <1>9, <2>1, <2>2 DEF Shown, longer
<1>10. CASE video' = Scrolled(Written(c)) /\ Position = Cells - 1 /\ Position' = LastRow
  <2>1. \A k \in 1 .. n + 1 :
           /\ Position' - (n + 1) + k - 1 \in Cell
           /\ Position' - (n + 1) + k - 1 < LastRow
           /\ (Position' - (n + 1) + k - 1) + SCREEN_WIDTH = Position - n + k - 1
    BY <1>1, <1>5, <1>10 DEF Cell, n
  <2>2. \A k \in 1 .. n + 1 :
           video'[Position' - (n + 1) + k - 1] = Written(c)[Position - n + k - 1]
    BY <1>4, <1>10, <2>1, ScrolledType
  <2>3. Len(longer) <= Position'
    BY <1>1, <1>10 DEF n
  <2> QED
    BY <1>1, <1>8, <2>2, <2>3 DEF Shown, longer
<1> QED
  BY <1>9, <1>10, PrintEffect

\* Backspace takes the last character off the text and nothing else.
LEMMA EraseShown ==
    ASSUME ScreenTypeOK, screen_backspace,
           NEW text \in Seq(Glyph), text # << >>, Shown(video, Position, text)
    PROVE  Shown(video', Position', SubSeq(text, 1, Len(text) - 1))
<1> DEFINE n == Len(text)
<1> DEFINE shorter == SubSeq(text, 1, n - 1)
<1>1. n \in Nat /\ n > 0 /\ Len(shorter) = n - 1
  <2>1. n \in Nat /\ n > 0
    BY EmptySeq
  <2> QED
    BY <2>1, SubSeqProperties
<1>2. \A k \in 1 .. n - 1 : shorter[k] = text[k]
  OBVIOUS
<1>3. /\ Position \in Nat /\ n <= Position /\ Position \in Cell /\ Cells \in Nat
  BY PositionInScreen DEF Shown
<1>4. Position' = Position - 1 /\ video' = [video EXCEPT ![Position'] = Blank]
  BY <1>1, <1>3, BackspaceEffect
<1>5. \A k \in 1 .. n : video[Position - n + k - 1] = text[k]
  BY DEF Shown
<1>6. DOMAIN video = Cell
  BY DEF ScreenTypeOK, Picture
<1> HIDE DEF n, shorter
<1>7. ASSUME NEW k \in 1 .. n - 1
      PROVE  video'[Position' - (n - 1) + k - 1] = shorter[k]
  <2>1. /\ Position' - (n - 1) + k - 1 = Position - n + k - 1
        /\ Position - n + k - 1 \in Cell
        /\ Position - n + k - 1 # Position'
    BY <1>1, <1>3, <1>4 DEF Cell
  <2>2. video'[Position - n + k - 1] = video[Position - n + k - 1]
    BY <1>4, <1>6, <2>1
  <2>3. video[Position - n + k - 1] = text[k]
    BY <1>1, <1>5
  <2> QED
    BY <1>2, <2>1, <2>2, <2>3
<1>8. Len(shorter) <= Position'
  BY <1>1, <1>3, <1>4
<1> QED
  BY <1>1, <1>7, <1>8 DEF Shown, shorter, n

LEMMA ShownIsBefore ==
    ASSUME ScreenTypeOK, NEW text \in Seq(Glyph)
    PROVE  Shown(video, Position, text)
             <=> Len(text) <= Position /\ Before(Len(text)) = text
<1>1. /\ DOMAIN text = 1 .. Len(text) /\ Len(text) \in Nat
      /\ text = [k \in 1 .. Len(text) |-> text[k]]
  OBVIOUS
<1>2. /\ Before(Len(text)) = [k \in 1 .. Len(text) |-> Before(Len(text))[k]]
      /\ \A k \in 1 .. Len(text) :
             Before(Len(text))[k] = video[Position - Len(text) + k - 1]
  BY DEF Before
<1> QED
  BY <1>1, <1>2 DEF Shown

LEMMA ConcatAppend ==
    ASSUME NEW S, NEW a \in Seq(S), NEW b \in Seq(S), NEW e \in S
    PROVE  a \o Append(b, e) = Append(a \o b, e)
<1>1. /\ a \o Append(b, e) \in Seq(S)
      /\ Append(a \o b, e) \in Seq(S)
      /\ Len(a \o Append(b, e)) = Len(a) + Len(b) + 1
      /\ Len(Append(a \o b, e)) = Len(a) + Len(b) + 1
  OBVIOUS
<1>2. ASSUME NEW i \in 1 .. Len(a) + Len(b) + 1
      PROVE  (a \o Append(b, e))[i] = Append(a \o b, e)[i]
  OBVIOUS
<1> QED
  BY <1>1, <1>2, SeqEqual

LEMMA ConcatFront ==
    ASSUME NEW S, NEW a \in Seq(S), NEW b \in Seq(S), b # << >>
    PROVE  a \o SubSeq(b, 1, Len(b) - 1) = SubSeq(a \o b, 1, Len(a \o b) - 1)
<1>1. Len(b) \in Nat \ {0} /\ Len(a) \in Nat
  BY EmptySeq
<1>2. /\ SubSeq(b, 1, Len(b) - 1) \in Seq(S)
      /\ Len(SubSeq(b, 1, Len(b) - 1)) = Len(b) - 1
      /\ \A i \in 1 .. Len(b) - 1 : SubSeq(b, 1, Len(b) - 1)[i] = b[i]
  <2>1. \A i \in 1 .. Len(b) - 1 : b[i] \in S
    BY <1>1
  <2> DEFINE m == Len(b) - 1
  <2>2. m \in Nat /\ \A i \in 1 .. m : b[i] \in S
    BY <1>1, <2>1
  <2> HIDE DEF m
  <2>3. SubSeq(b, 1, m) \in Seq(S)
    BY <2>2, SubSeqProperties
  <2>4. Len(SubSeq(b, 1, m)) = IF 1 <= m THEN m - 1 + 1 ELSE 0
    BY <2>2, SubSeqProperties
  <2>5. Len(SubSeq(b, 1, m)) = m
    BY <2>2, <2>4
  <2>6. \A i \in 1 .. m : SubSeq(b, 1, m)[i] = b[i]
    BY <2>2, <1>1 DEF m
  <2> QED
    BY <2>3, <2>5, <2>6 DEF m
<1>3. a \o b \in Seq(S) /\ Len(a \o b) = Len(a) + Len(b)
  BY ConcatProperties
<1>4. /\ SubSeq(a \o b, 1, Len(a \o b) - 1) \in Seq(S)
      /\ Len(SubSeq(a \o b, 1, Len(a \o b) - 1)) = Len(a) + Len(b) - 1
      /\ \A i \in 1 .. Len(a) + Len(b) - 1 :
             SubSeq(a \o b, 1, Len(a \o b) - 1)[i] = (a \o b)[i]
  BY <1>1, <1>3, SubSeqProperties
<1>5. /\ a \o SubSeq(b, 1, Len(b) - 1) \in Seq(S)
      /\ Len(a \o SubSeq(b, 1, Len(b) - 1)) = Len(a) + Len(b) - 1
  BY <1>1, <1>2, ConcatProperties
<1>6. ASSUME NEW i \in 1 .. Len(a) + Len(b) - 1
      PROVE  (a \o SubSeq(b, 1, Len(b) - 1))[i] = (a \o b)[i]
  BY <1>1, <1>2
<1> QED
  BY <1>4, <1>5, <1>6, SeqEqual

(***************************************************************************)
(* While the prompt is printed, what is left to print is its end; the line *)
(* begins when nothing is left.                                            *)
(***************************************************************************)
PromptInv ==
    mode \in {"line", "password"} =>
        /\ prompt \in Prompts
        /\ Len(out) <= Len(prompt)
        /\ \A k \in 1 .. Len(out) : out[k] = prompt[Len(prompt) - Len(out) + k]
        /\ out # << >> => buffer = << >>

LEMMA PromptStep ==
    ASSUME ConsoleTypeOK, PromptInv, PendingInMenu, [ConsoleNext]_consoleVars
    PROVE  PromptInv'
<1> USE TypeParts DEF PromptInv
<1>1. CASE UNCHANGED <<mode, prompt, out, buffer>>
  BY <1>1
<1>2. ASSUME NEW kind \in {"line", "password"}, NEW text \in Prompts, AskFor(kind, text)
      PROVE  PromptInv'
  <2>1. text \in Seq(Glyph) /\ Len(text) \in Nat /\ prompt' = text /\ out' = text
    BY <1>2, PromptAssumption DEF AskFor
  <2>2. \A k \in 1 .. Len(text) : Len(text) - Len(text) + k = k
    BY <2>1
  <2> QED
    BY <1>2, <2>1, <2>2 DEF AskFor
<1>3. CASE PrintNext
  <2>1. /\ out \in Seq(Glyph \cup {NewLine}) /\ prompt \in Seq(Glyph) /\ out # << >>
        /\ out' = Tail(out) /\ UNCHANGED <<mode, prompt, buffer>>
    BY <1>3 DEF PrintNext, ProgramTypeOK
  <2>2. /\ Len(out) \in Nat \ {0} /\ Len(prompt) \in Nat
        /\ Len(out') = Len(out) - 1
        /\ \A k \in 1 .. Len(out') : out'[k] = out[k + 1]
    BY <2>1, EmptySeq, HeadTailProperties
  <2>3. \A k \in 1 .. Len(out') :
            /\ k + 1 \in 1 .. Len(out)
            /\ Len(prompt) - Len(out') + k = Len(prompt) - Len(out) + (k + 1)
    BY <2>2
  <2> QED
    BY <2>1, <2>2, <2>3
<1>4. ASSUME NEW key \in Key, Erase(key) \/ Store(key) PROVE PromptInv'
  BY <1>4 DEF Erase, Store, Reading
<1>5. CASE mode' \notin {"line", "password"}
  BY <1>5
<1>6. ASSUME NEW text \in Texts, Say(text) PROVE PromptInv'
  BY <1>6 DEF Say, Ready
<1>7. CASE DrawLine
  BY <1>7 DEF DrawLine, PendingInMenu
<1> QED
  BY <1>1, <1>2, <1>3, <1>4, <1>5, <1>6, <1>7
  DEF ConsoleNext, Program, Typist, Clear, OpenMenu, ShiftDown, ShiftUp, Enter, Arrow,
      MenuEnter, MenuReturn, consoleVars, program

(***************************************************************************)
(* How the expected text grows and shrinks with the program's state        *)
(***************************************************************************)

LEMMA ExpectedType ==
    ASSUME ConsoleTypeOK
    PROVE  /\ Echoed \in Seq(Glyph) /\ Len(Echoed) = Len(buffer)
           /\ Printed \in Seq(Glyph) /\ Expected \in Seq(Glyph)
<1>1. buffer \in Seq(Glyph) /\ prompt \in Seq(Glyph) /\ Len(out) \in Nat
  BY TypeParts DEF ProgramTypeOK
<1>2. \A k \in 1 .. Len(buffer) : Echo(buffer[k]) \in Glyph
  BY <1>1, CharAssumption DEF Echo
<1>3. Len(buffer) \in Nat
  BY <1>1
<1>4. Echoed \in Seq(Glyph) /\ Len(Echoed) = Len(buffer)
  BY <1>2, <1>3 DEF Echoed
<1>5. Printed \in Seq(Glyph)
  BY <1>1, SubSeqProperties DEF Printed
<1> QED
  BY <1>4, <1>5, ConcatProperties DEF Expected

LEMMA PrintedWhole ==
    ASSUME ConsoleTypeOK, out = << >>
    PROVE  Printed = prompt
<1>1. prompt \in Seq(Glyph) /\ Len(out) = 0 /\ Len(prompt) \in Nat
  BY TypeParts, EmptySeq DEF ProgramTypeOK
<1> QED
  BY <1>1, SubSeqFull DEF Printed

\* The prompt and the longest line fit above the last row.
LEMMA ExpectedLength ==
    ASSUME ConsoleTypeOK, PromptInv, mode \in {"line", "password"}
    PROVE  /\ Len(Expected) <= LastRow
           /\ out # << >> \/ Len(buffer) < MAX_LENGTH - 1 => Len(Expected) + 1 <= LastRow
<1>1. /\ prompt \in Prompts /\ prompt \in Seq(Glyph)
      /\ Len(prompt) \in Nat /\ Len(out) \in Nat /\ Len(buffer) \in Nat
      /\ MAX_LENGTH \in Nat \ {0} /\ Len(buffer) < MAX_LENGTH
      /\ Len(out) <= Len(prompt) /\ (out # << >> => buffer = << >>)
  BY TypeParts, ScreenAssumption DEF ProgramTypeOK, PromptInv
<1>2. Len(prompt) + MAX_LENGTH - 1 <= LastRow /\ LastRow \in Nat
  BY <1>1, PromptAssumption, TypeParts, PositionInScreen
<1>3. Len(Expected) = Len(Printed) + Len(buffer)
  <2>1. Len(Printed \o Echoed) = Len(Printed) + Len(Echoed)
    BY ExpectedType, ConcatProperties
  <2> QED
    BY <2>1, ExpectedType DEF Expected
<1>4. Len(Printed) = Len(prompt) - Len(out)
  BY <1>1, SubSeqProperties DEF Printed
<1>5. out # << >> => Len(out) > 0 /\ Len(buffer) = 0
  BY <1>1, TypeParts, EmptySeq DEF ProgramTypeOK
<1> QED
  BY <1>1, <1>2, <1>3, <1>4, <1>5

LEMMA ExpectedPrint ==
    ASSUME ConsoleTypeOK, PromptInv, PrintNext, mode \in {"line", "password"}
    PROVE  Head(out) \in Glyph /\ Expected' = Append(Expected, Head(out))
<1>1. /\ prompt \in Seq(Glyph) /\ out \in Seq(Glyph \cup {NewLine}) /\ out # << >>
      /\ buffer = << >> /\ Len(out) <= Len(prompt)
      /\ out' = Tail(out) /\ prompt' = prompt /\ buffer' = buffer
      /\ \A k \in 1 .. Len(out) : out[k] = prompt[Len(prompt) - Len(out) + k]
  BY TypeParts DEF ProgramTypeOK, PromptInv, PrintNext
<1>2. Len(out) \in Nat \ {0} /\ Len(prompt) \in Nat /\ Len(out') = Len(out) - 1
  BY <1>1, EmptySeq, HeadTailProperties
<1>3. Echoed = << >> /\ Echoed' = << >>
  BY <1>1, EmptySeq DEF Echoed
<1> DEFINE m == Len(prompt) - Len(out)
<1>4. m \in Nat /\ m + 1 <= Len(prompt) /\ Len(prompt') - Len(out') = m + 1
  BY <1>1, <1>2
<1>5. Head(out) = prompt[m + 1]
  BY <1>1, <1>2
<1>6. Printed = SubSeq(prompt, 1, m) /\ Printed' = SubSeq(prompt, 1, m + 1)
  BY <1>1, <1>4 DEF Printed
<1> HIDE DEF m
<1>7. prompt[m + 1] \in Glyph
  BY <1>1, <1>2, <1>4
<1>8. SubSeq(prompt, 1, m + 1) = Append(SubSeq(prompt, 1, m), prompt[m + 1])
  BY <1>1, <1>2, <1>4, <1>7
<1>9. /\ SubSeq(prompt, 1, m) \in Seq(Glyph)
      /\ SubSeq(prompt, 1, m + 1) \in Seq(Glyph)
  BY <1>1, <1>2, <1>4, SubSeqProperties
<1>10. Expected = Printed /\ Expected' = Printed'
  BY <1>3, <1>6, <1>9, ConcatEmptySeq DEF Expected
<1> QED
  BY <1>5, <1>6, <1>7, <1>8, <1>10

LEMMA ExpectedStore ==
    ASSUME ConsoleTypeOK, ConsoleTypeOK', NEW key \in Key, Store(key)
    PROVE  /\ Echo(getchar(key)) \in Glyph
           /\ Expected' = Append(Expected, Echo(getchar(key)))
<1> DEFINE c == getchar(key)
<1>1. /\ buffer \in Seq(Glyph) /\ prompt \in Seq(Glyph) /\ c \in Glyph
      /\ buffer' = Append(buffer, c)
      /\ UNCHANGED <<mode, prompt, out>> /\ out = << >>
  BY TypeParts DEF ProgramTypeOK, Store, Reading
<1>2. Echo(c) \in Glyph
  BY <1>1, CharAssumption DEF Echo
<1>3. Printed = prompt /\ Printed' = prompt
  <2>1. Printed' = Printed
    BY <1>1 DEF Printed
  <2> QED
    BY <1>1, <2>1, PrintedWhole
<1>4. Echoed' = Append(Echoed, Echo(c))
  <2> HIDE DEF c
  <2>1. Len(buffer) \in Nat /\ Len(buffer') = Len(buffer) + 1
    BY <1>1
  <2>2. \A k \in 1 .. Len(buffer) : buffer'[k] = buffer[k]
    BY <1>1
  <2>3. buffer'[Len(buffer) + 1] = c
    BY <1>1
  <2>4. Echoed \in Seq(Glyph) /\ Len(Echoed) = Len(buffer)
    BY ExpectedType
  <2>5. /\ Append(Echoed, Echo(c)) \in Seq(Glyph)
        /\ Len(Append(Echoed, Echo(c))) = Len(buffer) + 1
        /\ \A k \in 1 .. Len(buffer) : Append(Echoed, Echo(c))[k] = Echoed[k]
        /\ Append(Echoed, Echo(c))[Len(buffer) + 1] = Echo(c)
    BY <1>2, <2>1, <2>4
  <2>6. Echoed' = [k \in 1 .. Len(buffer) + 1 |-> Echo(buffer'[k])]
    BY <1>1, <2>1 DEF Echoed, Echo
  <2>7. \A k \in 1 .. Len(buffer) : Echoed[k] = Echo(buffer[k])
    BY DEF Echoed
  <2>8. ASSUME NEW k \in 1 .. Len(buffer) + 1
        PROVE  Append(Echoed, Echo(c))[k] = Echo(buffer'[k])
    <3>1. CASE k = Len(buffer) + 1
      BY <2>3, <2>5, <3>1
    <3>2. CASE k \in 1 .. Len(buffer)
      BY <2>2, <2>5, <2>7, <3>2
    <3>3. k = Len(buffer) + 1 \/ k \in 1 .. Len(buffer)
      BY <2>1
    <3> QED
      BY <3>1, <3>2, <3>3
  <2>9. Append(Echoed, Echo(c))
            = [k \in 1 .. Len(buffer) + 1 |-> Append(Echoed, Echo(c))[k]]
    BY <2>5, LenProperties
  <2> QED
    BY <2>6, <2>8, <2>9
<1>5. Echoed \in Seq(Glyph)
  BY ExpectedType
<1> QED
  BY <1>1, <1>2, <1>3, <1>4, <1>5, ConcatAppend DEF Expected

LEMMA ExpectedErase ==
    ASSUME ConsoleTypeOK, NEW key \in Key, Erase(key)
    PROVE  /\ Expected # << >>
           /\ Expected' = SubSeq(Expected, 1, Len(Expected) - 1)
<1>1. /\ buffer \in Seq(Glyph) /\ buffer # << >>
      /\ buffer' = SubSeq(buffer, 1, Len(buffer) - 1)
      /\ UNCHANGED <<mode, prompt, out>>
  BY TypeParts DEF ProgramTypeOK, Erase, Reading
<1>2. /\ Echoed \in Seq(Glyph) /\ Printed \in Seq(Glyph)
      /\ Len(Echoed) = Len(buffer) /\ Len(buffer) \in Nat \ {0}
  BY <1>1, ExpectedType, EmptySeq
<1>3. Echoed # << >>
  BY <1>2, EmptySeq
<1>4. Printed' = Printed
  BY <1>1 DEF Printed
<1>5. Echoed' = SubSeq(Echoed, 1, Len(Echoed) - 1)
  <2> DEFINE m == Len(buffer) - 1
  <2>1. m \in Nat /\ Len(buffer') = m
    BY <1>1, <1>2
  <2>2. \A k \in 1 .. m : buffer'[k] = buffer[k]
    BY <1>1, <1>2
  <2>3. Len(Echoed) = m + 1 /\ Len(Echoed) - 1 = m
    BY <1>2
  <2>4. Echoed' = [k \in 1 .. m |-> Echo(buffer'[k])]
    BY <1>1, <2>1 DEF Echoed, Echo
  <2>5. \A k \in 1 .. m : k \in 1 .. Len(buffer) /\ Echoed[k] = Echo(buffer[k])
    BY <1>2 DEF Echoed
  <2> HIDE DEF m
  <2>6. \A k \in 1 .. m : Echoed'[k] = Echoed[k]
    BY <2>2, <2>4, <2>5
  <2>7. SubSeq(Echoed, 1, m) = [k \in 1 .. m |-> Echoed[k]]
    BY <1>2, <2>1, <2>3
  <2> QED
    BY <2>3, <2>4, <2>6, <2>7
<1>6. Expected # << >>
  BY <1>2, <1>3, ConcatEqualIffEmpty DEF Expected
<1>7. Printed \o SubSeq(Echoed, 1, Len(Echoed) - 1)
        = SubSeq(Printed \o Echoed, 1, Len(Printed \o Echoed) - 1)
  BY <1>2, <1>3, ConcatFront
<1> QED
  BY <1>4, <1>5, <1>6, <1>7 DEF Expected

LineInv == PendingInMenu /\ PromptInv /\ LineOnScreen

\* LineOnScreen, said with Shown.
ExpectedShown ==
    mode \in {"line", "password"} => Shown(video, Position, Expected)

LEMMA LineIsShown == ConsoleTypeOK => (LineOnScreen <=> ExpectedShown)
BY TypeParts, ExpectedType, ShownIsBefore DEF LineOnScreen, ExpectedShown

LEMMA LineStep ==
    ASSUME ConsoleTypeOK, ConsoleTypeOK', PromptInv, PendingInMenu,
           LineOnScreen, ConsoleNext, mode' \in {"line", "password"}
    PROVE  Shown(video', Position', Expected')
<1> USE TypeParts
<1>1. ASSUME NEW kind \in {"line", "password"}, NEW text \in Prompts, AskFor(kind, text)
      PROVE  Shown(video', Position', Expected')
  <2>1. /\ text \in Seq(Glyph) /\ Len(text) \in Nat
        /\ prompt' = text /\ out' = text /\ buffer' = << >>
    BY <1>1, PromptAssumption DEF AskFor
  <2>2. Printed' = << >>
    <3>1. Printed' = SubSeq(text, 1, 0)
      BY <2>1 DEF Printed
    <3> QED
      BY <3>1, SubSeqEmpty
  <2>3. Echoed' = << >>
    BY <2>1, EmptySeq DEF Echoed
  <2>4. Expected' = << >>
    BY <2>2, <2>3, EmptySeq, ConcatEmptySeq DEF Expected
  <2>5. Position' \in Nat
    BY <1>1, PositionInScreen DEF AskFor, screen, Position
  <2> QED
    BY <2>4, <2>5, EmptySeq DEF Shown
<1>2. CASE mode \in {"line", "password"}
  <2>1. Shown(video, Position, Expected) /\ Expected \in Seq(Glyph)
    BY <1>2, LineIsShown, ExpectedType DEF ExpectedShown
  <2>2. CASE PrintNext
    <3>1. Head(out) \in Glyph /\ Expected' = Append(Expected, Head(out))
      BY <1>2, <2>2, ExpectedPrint
    <3>2. Len(Expected) + 1 <= LastRow
      BY <1>2, <2>2, ExpectedLength DEF PrintNext
    <3> QED
      BY <2>1, <2>2, <3>1, <3>2, PrintShown DEF PrintNext
  <2>3. ASSUME NEW key \in Key, Store(key) PROVE Shown(video', Position', Expected')
    <3>1. /\ Echo(getchar(key)) \in Glyph
          /\ Expected' = Append(Expected, Echo(getchar(key)))
      BY <2>3, ExpectedStore
    <3>2. Len(Expected) + 1 <= LastRow
      BY <1>2, <2>3, ExpectedLength DEF Store, HasRoom
    <3> QED
      BY <2>1, <2>3, <3>1, <3>2, PrintShown DEF Store
  <2>4. ASSUME NEW key \in Key, Erase(key) PROVE Shown(video', Position', Expected')
    BY <2>1, <2>4, ExpectedErase, EraseShown DEF Erase
  <2>5. CASE UNCHANGED <<screen, mode, prompt, out, buffer>>
    <3>1. Expected' = Expected
      BY <2>5 DEF Expected, Printed, Echoed, Echo
    <3>2. Position' = Position /\ video' = video
      BY <2>5 DEF screen, Position
    <3> QED
      BY <2>1, <3>1, <3>2
  <2>6. ASSUME NEW key \in Key, Enter(key) PROVE FALSE
    BY <2>6 DEF Enter
  <2>7. CASE DrawLine
    BY <1>2, <2>7 DEF DrawLine, PendingInMenu
  <2>8. ASSUME NEW key \in Shift, ShiftDown(key) \/ ShiftUp(key)
        PROVE  UNCHANGED <<screen, mode, prompt, out, buffer>>
    BY <2>8 DEF ShiftDown, ShiftUp, program
  <2>9. ~ Ready /\ ~ InMenu /\ mode # "menu_release"
    BY <1>2 DEF Ready, InMenu
  <2> QED
    BY <2>2, <2>3, <2>4, <2>5, <2>6, <2>7, <2>8, <2>9
    DEF ConsoleNext, Program, Typist, Say, Clear, AskFor, OpenMenu, Arrow, MenuEnter,
        MenuReturn
<1>3. CASE mode \notin {"line", "password"}
  BY <1>1, <1>3
  DEF ConsoleNext, Program, Typist, Say, Clear, OpenMenu, PrintNext, DrawLine,
      ShiftDown, ShiftUp, Enter, Erase, Store, Arrow, MenuEnter, MenuReturn, Ready,
      InMenu, program
<1> QED
  BY <1>2, <1>3

\* One step of the inductive invariant.
LEMMA LineInvStep ==
    ASSUME ConsoleTypeOK, ConsoleTypeOK', LineInv, [ConsoleNext]_consoleVars
    PROVE  LineInv'
<1>1. PendingInMenu' /\ PromptInv'
  BY PendingStep, PromptStep DEF LineInv
<1>2. CASE ConsoleNext
  <2>1. ExpectedShown'
    BY <1>2, LineStep DEF LineInv, ExpectedShown
  <2>2. LineOnScreen'
    BY <2>1, LineIsShown, PTL
  <2> QED
    BY <1>1, <2>2 DEF LineInv
<1>3. CASE UNCHANGED consoleVars
  <2>1. UNCHANGED <<video, mode, prompt, out, buffer>> /\ Position' = Position
    BY <1>3 DEF consoleVars, screen, program, Position
  <2>2. Expected' = Expected
    BY <2>1 DEF Expected, Printed, Echoed, Echo
  <2>3. ExpectedShown' <=> ExpectedShown
    BY <2>1, <2>2 DEF ExpectedShown
  <2>4. ExpectedShown
    BY LineIsShown DEF LineInv
  <2>5. LineOnScreen'
    BY <2>3, <2>4, LineIsShown, PTL
  <2> QED
    BY <1>1, <2>5 DEF LineInv
<1> QED
  BY <1>2, <1>3

LEMMA LineInvariant == ConsoleSpec => [](ConsoleTypeOK /\ LineInv)
<1>1. ConsoleInit => LineInv
  BY DEF ConsoleInit, LineInv, PendingInMenu, PromptInv, LineOnScreen
<1>2. ConsoleTypeOK /\ ConsoleTypeOK' /\ LineInv /\ [ConsoleNext]_consoleVars => LineInv'
  BY LineInvStep
<1> QED
  BY <1>1, <1>2, ConsoleTypeCorrect, PTL DEF ConsoleSpec

(***************************************************************************)
(* At every key the screen shows the prompt and after it the line, or its  *)
(* mask, up to the cursor: for every size of the screen on which the       *)
(* prompt and the longest line leave a row free, and whatever wraps,       *)
(* scrolls or is erased.                                                   *)
(***************************************************************************)
THEOREM LineStaysOnScreen == ConsoleSpec => []LineOnScreen
<1>1. ConsoleTypeOK /\ LineInv => LineOnScreen
  BY DEF LineInv
<1> QED
  BY <1>1, LineInvariant, PTL

(***************************************************************************)
(* The refinement: each step is a step of LineEditor or changes nothing    *)
(* that it has                                                             *)
(***************************************************************************)

VisibleIsLine ==
    Reading => Visible = prompt \o Editor!Seen(buffer, mode = "password")

LEMMA VisibleLine == ConsoleTypeOK /\ LineInv => VisibleIsLine
<1> SUFFICES ASSUME ConsoleTypeOK, LineInv, Reading
             PROVE  Visible = prompt \o Editor!Seen(buffer, mode = "password")
  BY DEF VisibleIsLine
<1>1. Printed = prompt /\ Echoed \in Seq(Glyph) /\ Len(Echoed) = Len(buffer)
  BY PrintedWhole, ExpectedType DEF Reading
<1>2. prompt \in Seq(Glyph)
  BY TypeParts DEF ProgramTypeOK
<1>3. Expected = prompt \o Echoed /\ Len(Expected) = Len(prompt) + Len(buffer)
  <2>1. Len(prompt \o Echoed) = Len(prompt) + Len(Echoed)
    BY <1>1, <1>2, ConcatProperties
  <2> QED
    BY <1>1, <2>1 DEF Expected
<1>4. Before(Len(Expected)) = Expected
  BY DEF LineInv, LineOnScreen, Reading
<1>5. Echoed = Editor!Seen(buffer, mode = "password")
  BY DEF Echoed, Echo, Editor!Seen
<1> QED
  BY <1>3, <1>4, <1>5 DEF Visible

LEMMA EditorStep ==
    ASSUME ConsoleTypeOK, ConsoleTypeOK', LineInv, LineInv', ConsoleNext
    PROVE  [Editor!EditorNext]_(Editor!editorVars)
<1> USE TypeParts
<1>1. VisibleIsLine /\ VisibleIsLine'
  BY VisibleLine, PTL
<1>2. CASE ~ Reading /\ ~ Reading'
  BY <1>2 DEF Editor!EditorNext, Editor!Idle
<1>3. CASE ~ Reading /\ Reading'
  <2>1. buffer' = << >>
    <3>1. CASE PrintNext
      <4>1. mode \in {"line", "password"} /\ out # << >> /\ buffer' = buffer
        BY <1>3, <3>1 DEF Reading, PrintNext
      <4> QED
        BY <4>1 DEF LineInv, PromptInv
    <3>2. ASSUME NEW kind \in {"line", "password"}, NEW text \in Prompts,
                 AskFor(kind, text)
          PROVE  buffer' = << >>
      BY <3>2 DEF AskFor
    <3>3. mode \in {"line", "password"} => pending = << >> /\ out # << >>
      BY <1>3 DEF Reading, LineInv, PendingInMenu
    <3> QED
      BY <1>3, <3>1, <3>2, <3>3
      DEF ConsoleNext, Program, Typist, Say, Clear, OpenMenu, DrawLine, ShiftDown,
          ShiftUp, Enter, Erase, Store, Arrow, MenuEnter, MenuReturn, Ready, Reading,
          InMenu, program
  <2>2. Editor!Seen(<< >>, (mode = "password")') = << >>
    BY EmptySeq DEF Editor!Seen
  <2>3. Visible' = prompt' \o Editor!Seen(buffer', (mode = "password")')
    BY <1>1, <1>3 DEF VisibleIsLine
  <2>4. prompt' \in Seq(Glyph)
    BY DEF ConsoleTypeOK
  <2>5. Visible' = prompt'
    BY <2>1, <2>2, <2>3, <2>4, ConcatEmptySeq
  <2> QED
    BY <1>3, <2>1, <2>5 DEF Editor!EditorNext, Editor!Ask
<1>4. CASE Reading
  <2>1. ASSUME NEW key \in Key, Store(key) PROVE Editor!EditorNext
    <3>1. /\ getchar(key) \in Glyph /\ Len(buffer) < MAX_LENGTH - 1
          /\ buffer' = Append(buffer, getchar(key))
          /\ UNCHANGED <<mode, prompt, out>> /\ Reading'
      BY <2>1 DEF Store, HasRoom, Reading
    <3>2. Editor!Edit(Append(buffer, getchar(key)))
      BY <1>1, <1>4, <3>1 DEF Editor!Edit, VisibleIsLine
    <3>3. Editor!Insert(getchar(key))
      BY <3>1, <3>2 DEF Editor!Insert
    <3> QED
      BY <3>1, <3>3 DEF Editor!EditorNext
  <2>2. ASSUME NEW key \in Key, Erase(key) PROVE Editor!EditorNext
    <3>1. /\ buffer # << >> /\ buffer' = SubSeq(buffer, 1, Len(buffer) - 1)
          /\ UNCHANGED <<mode, prompt, out>> /\ Reading'
      BY <2>2 DEF Erase, Reading
    <3>2. Editor!Edit(SubSeq(buffer, 1, Len(buffer) - 1))
      BY <1>1, <1>4, <3>1 DEF Editor!Edit, VisibleIsLine
    <3> QED
      BY <3>1, <3>2 DEF Editor!EditorNext, Editor!Erase
  <2>3. ASSUME NEW key \in Key, Enter(key) PROVE Editor!EditorNext
    BY <1>4, <2>3
    DEF Enter, Reading, Editor!EditorNext, Editor!Accept
  <2>4. ASSUME NEW key \in Shift, ShiftDown(key) \/ ShiftUp(key)
        PROVE  UNCHANGED Editor!editorVars
    BY <2>4
    DEF ShiftDown, ShiftUp, program, screen, Editor!editorVars, Reading, Visible,
        Before, Position
  <2>5. /\ mode \in {"line", "password"} /\ out = << >> /\ pending = << >>
        /\ ~ Ready /\ ~ InMenu /\ mode # "menu_release"
    BY <1>4 DEF Reading, LineInv, PendingInMenu, Ready, InMenu
  <2> QED
    BY <2>1, <2>2, <2>3, <2>4, <2>5
    DEF ConsoleNext, Program, Typist, Say, Clear, AskFor, OpenMenu, PrintNext,
        DrawLine, Arrow, MenuEnter, MenuReturn
<1> QED
  BY <1>2, <1>3, <1>4

(***************************************************************************)
(* Keyboard, buffer and screen implement LineEditor: for every size and    *)
(* table, what the user sees from the prompt on is the prompt and the line *)
(* as the keys have edited it.                                             *)
(***************************************************************************)
THEOREM ConsoleRefinesLineEditor == ConsoleSpec => ImplementsLineEditor
<1>1. ConsoleInit => Editor!EditorInit
  BY DEF ConsoleInit, Editor!EditorInit, Reading
<1>2. /\ ConsoleTypeOK /\ ConsoleTypeOK' /\ LineInv /\ LineInv'
      /\ [ConsoleNext]_consoleVars
      => [Editor!EditorNext]_(Editor!editorVars)
  <2> SUFFICES ASSUME ConsoleTypeOK, ConsoleTypeOK', LineInv, LineInv',
                      [ConsoleNext]_consoleVars
               PROVE  [Editor!EditorNext]_(Editor!editorVars)
    OBVIOUS
  <2>1. CASE UNCHANGED consoleVars
    BY <2>1
    DEF consoleVars, program, screen, Editor!editorVars, Reading, Visible, Before,
        Position
  <2> QED
    BY <2>1, EditorStep
<1> QED
  BY <1>1, <1>2, LineInvariant, PTL DEF ConsoleSpec, ImplementsLineEditor, Editor!EditorSpec

(***************************************************************************)
(* The menu.  The heading may print and scroll as it likes: from the line  *)
(* of the first option on, the cursor is in the last row and what stands   *)
(* before it is the beginning of the two options, which never fill the row.*)
(***************************************************************************)

\* Both options as they stand in the row.
Both(choice) == Drawn(0, choice) \o Drawn(1, choice)

LEMMA BothOptions ==
    ASSUME NEW choice \in 0 .. 1
    PROVE  /\ Both(choice) \in Seq(Glyph)
           /\ Drawn(0, choice) \in Seq(Glyph) /\ Drawn(1, choice) \in Seq(Glyph)
           /\ Len(Drawn(0, choice)) \in Nat /\ Len(Drawn(1, choice)) \in Nat
           /\ Len(Both(choice)) = Len(Drawn(0, choice)) + Len(Drawn(1, choice))
           /\ Len(Both(choice)) < SCREEN_WIDTH
           /\ \A k \in 1 .. Len(Drawn(0, choice)) :
                  Both(choice)[k] = Drawn(0, choice)[k]
           /\ \A k \in 1 .. Len(Drawn(1, choice)) :
                  Both(choice)[Len(Drawn(0, choice)) + k] = Drawn(1, choice)[k]
<1> DEFINE a == Drawn(0, choice)
           b == Drawn(1, choice)
<1>1. /\ Option[0] \in Seq(Glyph) /\ Option[1] \in Seq(Glyph)
      /\ Marker \in Glyph /\ Blank \in Glyph
  BY MenuAssumption, CharAssumption
<1>2. /\ a \in Seq(Glyph) /\ Len(a) = Len(Option[0]) + 1
      /\ b \in Seq(Glyph) /\ Len(b) = Len(Option[1]) + 1
  BY <1>1 DEF Drawn
<1> HIDE DEF a, b
<1>3. /\ a \o b \in Seq(Glyph) /\ Len(a \o b) = Len(a) + Len(b)
      /\ \A k \in 1 .. Len(a) + Len(b) :
             (a \o b)[k] = IF k <= Len(a) THEN a[k] ELSE b[k - Len(a)]
  BY <1>2, ConcatProperties
<1>4. Len(a) \in Nat /\ Len(b) \in Nat
  BY <1>2, LenProperties
<1>5. Len(a) + Len(b) < SCREEN_WIDTH
  <2>1. Len(Option[0]) \in Nat /\ Len(Option[1]) \in Nat
    BY <1>1, LenProperties
  <2> QED
    BY <1>2, <2>1, MenuAssumption, ScreenAssumption
<1>6. ASSUME NEW k \in 1 .. Len(a) PROVE (a \o b)[k] = a[k]
  BY <1>3, <1>4
<1>7. ASSUME NEW k \in 1 .. Len(b) PROVE (a \o b)[Len(a) + k] = b[k]
  <2>1. PICK j \in 1 .. Len(a) + Len(b) : j = Len(a) + k /\ ~ (j <= Len(a)) /\ j - Len(a) = k
    BY <1>4
  <2> QED
    BY <1>3, <2>1
<1> QED
  BY <1>2, <1>3, <1>4, <1>5, <1>6, <1>7 DEF Both, a, b

\* The last row up to the cursor, with what is still to be printed, is the
\* beginning of the options: its first n characters.
RowShown(n) ==
    /\ cursor_y = SCREEN_HEIGHT - 1
    /\ cursor_x + Len(out) = n /\ n <= Len(Both(selected))
    /\ \A k \in 1 .. Len(out) : out[k] = Both(selected)[cursor_x + k]
    /\ \A k \in 1 .. cursor_x : video[LastRow + k - 1] = Both(selected)[k]

OptionsPending ==
    /\ Len(pending) >= 2
    /\ pending[Len(pending) - 1] = Options(selected)[1]
    /\ pending[Len(pending)] = Options(selected)[2]

FirstDrawn ==
    /\ Len(pending) = 1 /\ pending[1] = Options(selected)[2]
    /\ RowShown(Len(Drawn(0, selected)))

BothDrawn == pending = << >> /\ RowShown(Len(Both(selected)))

MenuInv ==
    /\ mode = "menu" => OptionsPending \/ FirstDrawn \/ BothDrawn
    /\ mode = "menu_release" => out = << >> /\ BothDrawn

LEMMA OptionLines ==
    ASSUME NEW choice \in 0 .. 1
    PROVE  /\ Options(choice) \in Seq(Line) /\ Len(Options(choice)) = 2
           /\ Options(choice)[1].row = SCREEN_HEIGHT - 1
           /\ Options(choice)[1].text = Drawn(0, choice)
           /\ ~ (Options(choice)[2].row < SCREEN_HEIGHT)
           /\ Options(choice)[2].text = Drawn(1, choice)
<1>1. OptionRow[0] = SCREEN_HEIGHT - 1 /\ ~ (OptionRow[1] < SCREEN_HEIGHT)
  BY MenuAssumption, ScreenAssumption
<1> QED
  BY <1>1, MenuLines DEF Options

\* A character of an option takes the next cell of the row.
LEMMA RowPrinted ==
    ASSUME ConsoleTypeOK, PrintNext, NEW n, RowShown(n)
    PROVE  RowShown(n)'
<1>1. /\ ScreenTypeOK /\ out \in Seq(Glyph \cup {NewLine}) /\ out # << >>
      /\ selected \in 0 .. 1 /\ video \in [Cell -> Glyph]
  BY TypeParts DEF ConsoleTypeOK, PrintNext
<1>2. /\ cursor_x \in Nat /\ LastRow \in Nat /\ SCREEN_WIDTH \in Nat \ {0}
      /\ Cells = LastRow + SCREEN_WIDTH
  BY <1>1, PositionInScreen
<1>3. PICK both \in Seq(Glyph) : both = Both(selected)
  BY <1>1, BothOptions
<1>4. Len(both) \in Nat /\ Len(both) < SCREEN_WIDTH /\ \A k \in 1 .. Len(both) : both[k] \in Glyph
  BY <1>1, <1>3, BothOptions, LenProperties
<1>5. Len(out) \in Nat /\ Len(out) > 0 /\ out[1] = Head(out)
  BY <1>1
<1>6. /\ cursor_y = SCREEN_HEIGHT - 1 /\ cursor_x + Len(out) = n /\ n <= Len(both)
      /\ \A k \in 1 .. Len(out) : out[k] = both[cursor_x + k]
      /\ \A k \in 1 .. cursor_x : video[LastRow + k - 1] = both[k]
  BY <1>3 DEF RowShown
<1>7. cursor_x + 1 \in 1 .. Len(both) /\ cursor_x + 1 < SCREEN_WIDTH /\ 1 \in 1 .. Len(out)
  BY <1>2, <1>4, <1>5, <1>6
<1>8. Head(out) = both[cursor_x + 1] /\ Head(out) \in Glyph /\ Head(out) # NewLine
  BY <1>4, <1>5, <1>6, <1>7, CharAssumption
<1>9. /\ video' = Written(Head(out)) /\ cursor_x' = cursor_x + 1 /\ cursor_y' = cursor_y
      /\ out' = Tail(out) /\ selected' = selected
  BY <1>2, <1>7, <1>8 DEF PrintNext, screen_print_char, menu
<1>10. Position = LastRow + cursor_x /\ Position \in Cell
  <2>1. cursor_y \in Row /\ cursor_y + 1 >= SCREEN_HEIGHT
    BY <1>1, <1>6, ScreenAssumption DEF ScreenTypeOK
  <2>2. cursor_y * SCREEN_WIDTH = LastRow
    BY <1>1, <2>1, GridPosition DEF ScreenTypeOK
  <2> QED
    BY <1>1, <2>2, PositionInScreen
<1>11. Both(selected)' = both
  BY <1>3, <1>9 DEF Both, Drawn
<1>12. /\ Len(Tail(out)) = Len(out) - 1
       /\ \A k \in 1 .. Len(Tail(out)) : Tail(out)[k] = out[k + 1]
  BY <1>1, HeadTailProperties
<1>13. ASSUME NEW k \in 1 .. Len(out')
       PROVE  out'[k] = both[cursor_x' + k]
  <2>1. k + 1 \in 1 .. Len(out) /\ cursor_x + (k + 1) = (cursor_x + 1) + k
    BY <1>2, <1>5, <1>9, <1>12
  <2>2. out'[k] = out[k + 1]
    BY <1>9, <1>12
  <2> QED
    BY <1>6, <1>9, <2>1, <2>2
<1>14. ASSUME NEW k \in 1 .. cursor_x'
       PROVE  video'[LastRow + k - 1] = both[k]
  <2>1. PICK i \in Cell : i = LastRow + k - 1
    BY <1>2, <1>7, <1>9 DEF Cell
  <2>2. CASE k = cursor_x + 1
    <3>1. i = Position
      BY <1>2, <1>10, <2>1, <2>2
    <3> QED
      BY <1>1, <1>8, <1>9, <1>10, <2>1, <2>2, <3>1 DEF Written
  <2>3. CASE k # cursor_x + 1
    <3>1. k \in 1 .. cursor_x /\ i # Position
      BY <1>2, <1>9, <1>10, <2>1, <2>3
    <3> QED
      BY <1>1, <1>6, <1>9, <2>1, <3>1 DEF Written
  <2> QED
    BY <2>2, <2>3
<1>15. cursor_x' + Len(out') = n
  <2>1. Len(out') = Len(out) - 1 /\ cursor_x' = cursor_x + 1
    BY <1>9, <1>12
  <2>2. (cursor_x + 1) + (Len(out) - 1) = cursor_x + Len(out)
    BY <1>2, <1>5
  <2> QED
    BY <1>6, <2>1, <2>2
<1> QED
  BY <1>6, <1>9, <1>11, <1>13, <1>14, <1>15 DEF RowShown

LEMMA MenuPrint ==
    ASSUME ConsoleTypeOK, MenuInv, PrintNext
    PROVE  MenuInv'
<1>1. pending' = pending /\ selected' = selected /\ mode' = mode /\ out # << >>
  BY DEF PrintNext, menu
<1>2. Options(selected)' = Options(selected) /\ Both(selected)' = Both(selected)
      /\ Drawn(0, selected)' = Drawn(0, selected)
  BY <1>1 DEF Options, Both, Drawn
<1>3. mode # "menu_release"
  BY <1>1 DEF MenuInv
<1>4. CASE OptionsPending
  BY <1>1, <1>2, <1>3, <1>4 DEF MenuInv, OptionsPending
<1>5. CASE FirstDrawn
  <2>1. RowShown(Len(Drawn(0, selected)))'
    <3>1. PICK n : n = Len(Drawn(0, selected)) /\ RowShown(n)
      BY <1>5 DEF FirstDrawn
    <3>2. RowShown(n)'
      BY <3>1, RowPrinted
    <3>3. Len(Drawn(0, selected))' = n
      BY <1>2, <3>1
    <3> QED
      BY <3>2, <3>3 DEF RowShown
  <2>2. FirstDrawn'
    BY <1>1, <1>2, <1>5, <2>1 DEF FirstDrawn
  <2> QED
    BY <1>1, <1>3, <2>2 DEF MenuInv
<1>6. CASE BothDrawn
  <2>1. RowShown(Len(Both(selected)))'
    <3>1. PICK n : n = Len(Both(selected)) /\ RowShown(n)
      BY <1>6 DEF BothDrawn
    <3>2. RowShown(n)'
      BY <3>1, RowPrinted
    <3>3. Len(Both(selected))' = n
      BY <1>2, <3>1
    <3> QED
      BY <3>2, <3>3 DEF RowShown
  <2>2. BothDrawn'
    BY <1>1, <1>6, <2>1 DEF BothDrawn
  <2> QED
    BY <1>1, <1>3, <2>2 DEF MenuInv
<1> QED
  BY <1>1, <1>3, <1>4, <1>5, <1>6 DEF MenuInv

LEMMA MenuDraw ==
    ASSUME ConsoleTypeOK, PendingInMenu, MenuInv, DrawLine
    PROVE  MenuInv'
<1>1. /\ out = << >> /\ pending # << >> /\ mode = "menu"
      /\ mode' = mode /\ selected' = selected
      /\ screen_set_row(Head(pending).row)
      /\ out' = Head(pending).text /\ pending' = Tail(pending)
  BY DEF DrawLine, PendingInMenu
<1>2. PICK choice \in 0 .. 1 : choice = selected
  BY DEF ConsoleTypeOK
<1>3. Options(selected)' = Options(choice) /\ Both(selected)' = Both(choice)
      /\ Drawn(0, selected)' = Drawn(0, choice)
  BY <1>1, <1>2 DEF Options, Both, Drawn
<1>4. pending \in Seq(Line)
  BY DEF ConsoleTypeOK, Line
<1>5. /\ Head(pending) = pending[1] /\ Len(pending) \in Nat \ {0}
      /\ Tail(pending) \in Seq(Line) /\ Len(Tail(pending)) = Len(pending) - 1
      /\ \A k \in 1 .. Len(Tail(pending)) : Tail(pending)[k] = pending[k + 1]
  <2> HIDE DEF Line
  <2> SUFFICES ASSUME NEW lines \in Seq(Line), lines # << >>
               PROVE  /\ Head(lines) = lines[1] /\ Len(lines) \in Nat \ {0}
                      /\ Tail(lines) \in Seq(Line) /\ Len(Tail(lines)) = Len(lines) - 1
                      /\ \A k \in 1 .. Len(Tail(lines)) : Tail(lines)[k] = lines[k + 1]
    BY <1>1, <1>4
  <2>1. Head(lines) = lines[1] /\ Len(lines) \in Nat \ {0}
    OBVIOUS
  <2> QED
    BY <2>1, HeadTailProperties
<1>6. CASE OptionsPending /\ Len(pending) > 2
  <2>1. PICK n \in Nat : n = Len(Tail(pending)) /\ n + 1 = Len(pending) /\ n >= 2
    <3>1. PICK m \in Nat \ {0} : m = Len(pending)
      BY <1>5
    <3>2. m > 2 /\ Len(Tail(pending)) = m - 1
      BY <1>5, <1>6, <3>1
    <3>3. m - 1 \in Nat /\ (m - 1) + 1 = m /\ m - 1 >= 2
      BY <3>1, <3>2
    <3> QED
      BY <3>1, <3>2, <3>3
  <2>2. n \in 1 .. n /\ n - 1 \in 1 .. n /\ (n - 1) + 1 = n
    BY <2>1
  <2>3. Tail(pending)[n] = pending[n + 1] /\ Tail(pending)[n - 1] = pending[n]
    BY <1>5, <2>1, <2>2
  <2>4. pending[n] = Options(choice)[1] /\ pending[n + 1] = Options(choice)[2]
    <3>1. Len(pending) - 1 = n
      BY <2>1
    <3> QED
      BY <1>2, <1>6, <2>1, <3>1 DEF OptionsPending
  <2>5. OptionsPending'
    BY <1>1, <1>3, <2>1, <2>3, <2>4 DEF OptionsPending
  <2> QED
    BY <1>1, <2>5 DEF MenuInv
<1>7. CASE OptionsPending /\ ~ (Len(pending) > 2)
  <2>1. Len(pending) = 2 /\ Len(Tail(pending)) = 1
    BY <1>5, <1>7 DEF OptionsPending
  <2>2. pending[1] = Options(choice)[1] /\ pending[2] = Options(choice)[2]
    BY <1>2, <1>7, <2>1 DEF OptionsPending
  <2>3. Tail(pending)[1] = Options(choice)[2]
    BY <1>5, <2>1, <2>2
  <2>4. out' = Drawn(0, choice) /\ cursor_x' = 0 /\ cursor_y' = SCREEN_HEIGHT - 1
    BY <1>1, <1>5, <2>2, OptionLines, ScreenAssumption DEF screen_set_row
  <2>5. RowShown(Len(Drawn(0, selected)))'
    <3>1. /\ Len(Drawn(0, choice)) \in Nat
          /\ Len(Drawn(0, choice)) <= Len(Both(choice))
          /\ \A k \in 1 .. Len(Drawn(0, choice)) :
                 Drawn(0, choice)[k] = Both(choice)[0 + k]
      BY BothOptions
    <3> QED
      BY <1>3, <2>4, <3>1 DEF RowShown
  <2>6. FirstDrawn'
    BY <1>1, <1>3, <2>1, <2>3, <2>5 DEF FirstDrawn
  <2> QED
    BY <1>1, <2>6 DEF MenuInv
<1>8. CASE FirstDrawn
  <2>1. Len(Tail(pending)) = 0 /\ pending[1] = Options(choice)[2]
    BY <1>2, <1>5, <1>8 DEF FirstDrawn
  <2>2. pending' = << >>
    <3>1. PICK rest \in Seq(Line) : rest = Tail(pending)
      BY <1>5
    <3>2. Len(rest) = 0
      BY <2>1, <3>1
    <3>3. rest = << >>
      BY <3>2, EmptySeq
    <3> QED
      BY <1>1, <3>1, <3>3
  <2>3. out' = Drawn(1, choice) /\ cursor_x' = cursor_x /\ cursor_y' = cursor_y
        /\ video' = video
    BY <1>1, <1>5, <2>1, OptionLines, ScreenAssumption DEF screen_set_row
  <2>4. /\ cursor_y = SCREEN_HEIGHT - 1 /\ cursor_x = Len(Drawn(0, choice))
        /\ \A k \in 1 .. cursor_x : video[LastRow + k - 1] = Both(choice)[k]
    <3>1. cursor_x \in Nat /\ Len(out) = 0
      BY <1>1, TypeParts, PositionInScreen
    <3> QED
      BY <1>2, <1>8, <3>1 DEF FirstDrawn, RowShown
  <2>5. RowShown(Len(Both(selected)))'
    <3>1. /\ Len(Both(choice)) = Len(Drawn(0, choice)) + Len(Drawn(1, choice))
          /\ Len(Both(choice)) \in Nat
          /\ \A k \in 1 .. Len(Drawn(1, choice)) :
                 Drawn(1, choice)[k] = Both(choice)[Len(Drawn(0, choice)) + k]
      BY BothOptions, LenProperties
    <3> QED
      BY <1>3, <2>3, <2>4, <3>1 DEF RowShown
  <2>6. BothDrawn'
    BY <2>2, <2>5 DEF BothDrawn
  <2> QED
    BY <1>1, <2>6 DEF MenuInv
<1>9. ~ BothDrawn
  BY <1>1 DEF BothDrawn
<1> QED
  BY <1>1, <1>6, <1>7, <1>8, <1>9 DEF MenuInv

LEMMA MenuOpened ==
    ASSUME OpenMenu
    PROVE  MenuInv'
<1>1. mode' = "menu" /\ selected' = 0 /\ pending' = Heading \o Options(0)
  BY DEF OpenMenu
<1>2. Heading \in Seq(Line) /\ Options(0) \in Seq(Line) /\ Len(Options(0)) = 2
  BY MenuAssumption, OptionLines DEF Line
<1> DEFINE n == Len(Heading)
           options == Options(0)
<1>3. n \in Nat
  BY <1>2, LenProperties
<1> HIDE DEF options
<1>4. /\ Len(Heading \o options) = n + 2
      /\ \A k \in 1 .. n + 2 :
             (Heading \o options)[k] = IF k <= n THEN Heading[k] ELSE options[k - n]
  <2> HIDE DEF Line, n
  <2>1. PICK heading \in Seq(Line) : heading = Heading
    BY <1>2
  <2>2. PICK other \in Seq(Line) : other = options /\ Len(other) = 2
    BY <1>2 DEF options
  <2>3. /\ Len(heading \o other) = Len(heading) + Len(other)
        /\ \A k \in 1 .. Len(heading) + Len(other) :
               (heading \o other)[k] = IF k <= Len(heading) THEN heading[k]
                                      ELSE other[k - Len(heading)]
    BY ConcatProperties
  <2>4. Len(heading) = n
    BY <2>1 DEF n
  <2>5. Len(heading) + Len(other) = n + 2
    BY <2>2, <2>4
  <2> QED
    BY <2>1, <2>2, <2>3, <2>4, <2>5
<1> HIDE DEF n
<1>5. PICK j \in 1 .. n + 2, k \in 1 .. n + 2 :
         j = n + 1 /\ j - n = 1 /\ ~ (j <= n) /\ k = n + 2 /\ k - n = 2 /\ ~ (k <= n)
         /\ k - 1 = j /\ k >= 2
  BY <1>3
<1>6. (Heading \o options)[j] = options[1] /\ (Heading \o options)[k] = options[2]
  BY <1>4, <1>5
<1>7. Options(selected)' = options
  BY <1>1 DEF Options, Drawn, options
<1>8. OptionsPending'
  BY <1>1, <1>4, <1>5, <1>6, <1>7 DEF OptionsPending, options
<1> QED
  BY <1>1, <1>8 DEF MenuInv

LEMMA MenuArrow ==
    ASSUME NEW choice \in 0 .. 1, Arrow(choice)
    PROVE  MenuInv'
<1>1. mode' = "menu" /\ selected' = choice /\ pending' = Options(choice)
  BY DEF Arrow, InMenu, Redraws
<1>2. Options(selected)' = Options(choice)
  BY <1>1 DEF Options, Drawn
<1>3. OptionsPending'
  <2>1. Len(Options(choice)) = 2 /\ 2 - 1 = 1
    BY OptionLines
  <2>2. Len(pending') = 2 /\ Len(pending') - 1 = 1
    BY <1>1, <2>1
  <2> QED
    BY <1>1, <1>2, <2>2 DEF OptionsPending
<1> QED
  BY <1>1, <1>3 DEF MenuInv

LEMMA MenuStep ==
    ConsoleTypeOK /\ PendingInMenu /\ MenuInv /\ [ConsoleNext]_consoleVars => MenuInv'
<1> SUFFICES ASSUME ConsoleTypeOK, PendingInMenu, MenuInv, [ConsoleNext]_consoleVars
             PROVE  MenuInv'
  OBVIOUS
<1>1. CASE UNCHANGED consoleVars
  BY <1>1
  DEF consoleVars, screen, program, menu, MenuInv, OptionsPending, FirstDrawn,
      BothDrawn, RowShown, Options, Both, Drawn
<1>2. CASE mode' \notin {"menu", "menu_release"}
  BY <1>2 DEF MenuInv
<1>3. CASE MenuEnter
  <2>1. BothDrawn
    BY <1>3 DEF MenuEnter, InMenu, MenuInv, OptionsPending, FirstDrawn
  <2>2. out = << >> /\ out' = out /\ mode' = "menu_release"
        /\ UNCHANGED screen /\ UNCHANGED menu
    BY <1>3 DEF MenuEnter, InMenu
  <2>3. BothDrawn'
    BY <2>1, <2>2 DEF BothDrawn, RowShown, Both, Drawn, screen, menu
  <2> QED
    BY <2>2, <2>3 DEF MenuInv
<1>4. ASSUME NEW text \in Texts, Say(text) PROVE mode' = "run"
  BY <1>4 DEF Say, Ready
<1>5. Clear => mode' = "run"
  BY DEF Clear, Ready, program
<1>6. ASSUME NEW kind \in {"line", "password"}, NEW text \in Prompts, AskFor(kind, text)
      PROVE mode' \in {"line", "password"}
  BY <1>6 DEF AskFor
<1>7. ASSUME NEW key, ShiftDown(key) \/ ShiftUp(key) \/ Enter(key) \/ Erase(key) \/ Store(key)
      PROVE  mode' \in {"run", "line", "password"}
  BY <1>7 DEF ShiftDown, ShiftUp, Enter, Erase, Store, Reading, program
<1>8. MenuReturn => mode' = "run"
  BY DEF MenuReturn
<1> QED
  BY <1>1, <1>2, <1>3, <1>4, <1>5, <1>6, <1>7, <1>8,
     MenuPrint, MenuDraw, MenuOpened, MenuArrow
  DEF ConsoleNext, Program, Typist

(***************************************************************************)
(* When show_continue_menu awaits a key, the last row begins with both     *)
(* options and the marker of the one ENTER returns, although the second is *)
(* printed to a row the screen does not have: for every heading, and every *)
(* screen that is wider than the two options.                              *)
(***************************************************************************)
THEOREM MenuShowsItsChoice == ConsoleSpec => []MenuShowsChoice
<1>1. ConsoleInit => MenuInv /\ PendingInMenu
  BY DEF ConsoleInit, MenuInv, PendingInMenu
<1>2. ConsoleTypeOK /\ PendingInMenu /\ [ConsoleNext]_consoleVars => PendingInMenu'
  BY PendingStep
<1>3. ConsoleTypeOK /\ MenuInv => MenuShowsChoice
  <2> SUFFICES ASSUME ConsoleTypeOK, MenuInv, InMenu \/ mode = "menu_release"
               PROVE  \A k \in 1 .. Len(Both(selected)) :
                          video[LastRow + k - 1] = Both(selected)[k]
    BY DEF MenuShowsChoice, Both
  <2>1. out = << >> /\ BothDrawn
    <3>1. CASE mode = "menu_release"
      BY <3>1 DEF MenuInv
    <3>2. CASE InMenu
      <4>1. mode = "menu" /\ out = << >> /\ pending = << >>
        BY <3>2 DEF InMenu
      <4>2. Len(pending) = 0
        BY <4>1
      <4> QED
        BY <4>1, <4>2 DEF MenuInv, OptionsPending, FirstDrawn
    <3> QED
      BY <3>1, <3>2
  <2>2. cursor_x \in Nat /\ Len(out) = 0
    BY <2>1, TypeParts, PositionInScreen
  <2> QED
    BY <2>1, <2>2 DEF BothDrawn, RowShown
<1> QED
  BY <1>1, <1>2, <1>3, MenuStep, ConsoleTypeCorrect, PTL DEF ConsoleSpec

=============================================================================
